---- MODULE Spec2Model ----
(***************************************************************************)
(* PvP Trading Arena: the ArenaHook order board / escrow (Uniswap v4 hook) *)
(* and the ArenaSentinel trigger authority (Reactive Network contract),    *)
(* joined by the cross-chain callback channel.                             *)
(*                                                                         *)
(* Every external call is one atomic step (EVM transactions are serial).   *)
(* An entry point is an operator from the current state and the call's     *)
(* inputs to the call's outcome: the error it reverts with ("" when it     *)
(* succeeds), its return value, and the state it leaves, which for a       *)
(* reverted call is the state it started from.                             *)
(***************************************************************************)
EXTENDS Integers, Sequences, FiniteSets, TLC

(***************************************************************************)
(* Bounds of the model.                                                    *)
(***************************************************************************)
MaxOrders == 2
MaxTime == 1
MaxDuration == 1
MaxAmountIn == 1
MaxMinOut == 2
MaxTriggers == 2
MaxSqrt == 5
\* Scaled integer widths: uint128 is 0..UINT128_MAX, int128 is
\* -(INT128_MAX+1)..INT128_MAX, int256 is INT256_MIN..INT256_MAX.
UINT128_MAX == 7
INT128_MAX == 3
INT256_MAX == 15
INT256_MIN == -INT256_MAX - 1

(***************************************************************************)
(* Program constants.                                                      *)
(***************************************************************************)
\* A cap one entry larger.
MAX_ITERATIONS_51 == 50 + 1
MAX_ITERATIONS == 50
L1_CHAIN_ID == 11155111
L2_CHAIN_ID == 84532
\* Chain id of a log that is not from the subscription.
OTHER_CHAIN_ID == 1
SWAP_TOPIC_0 == "Swap"
OTHER_TOPIC == "Sync"

(***************************************************************************)
(* Accounts.  address(0) is never a caller.                                *)
(***************************************************************************)
ZERO == "0x0"
HOOK == "hook"
POOL_MANAGER == "pm"
\* The identity under which the relay delivers the sentinel's callbacks.
RELAY == "relay"
\* An externally owned account, and a contract account (tx.origin # msg.sender).
ALICE == "alice"
BOT == "bot"
\* The beneficiary the ArenaSentinel is constructed with (the AI wallet).
AI == "ai"
Makers == {ALICE, BOT}
Callers == {ALICE, BOT, POOL_MANAGER, RELAY}
Holders == {HOOK, POOL_MANAGER, ALICE, BOT, AI}
Beneficiaries == {AI, HOOK}
ContractAccounts == {BOT, POOL_MANAGER, HOOK}

Tokens == {"T0", "T1"}

\* PoolKey (currency0, currency1, fee, tickSpacing, hooks): two pools over the
\* same pair that differ in the fee.
KeyList == << [currency0 |-> "T0", currency1 |-> "T1", fee |-> 500],
              [currency0 |-> "T0", currency1 |-> "T1", fee |-> 3000] >>
Keys == {KeyList[i] : i \in 1..Len(KeyList)}

\* keccak256 over the 0xa0 bytes of the key: injective on the keys of the model;
\* 0 stands for bytes32(0), the poolId of a record that was never written.
_getPoolId(key) == CHOOSE i \in 1..Len(KeyList) : KeyList[i] = key
PoolIds == 1..Len(KeyList)

OrderIds == 0..MaxOrders
\* No order id: the value of an id-valued result when there is none.
NoId == 0 - 1
NoOrder == [maker |-> ZERO, sellToken0 |-> FALSE, amountIn |-> 0, minAmountOut |-> 0,
            expiry |-> 0, active |-> FALSE, poolId |-> 0, isHuman |-> FALSE]

VARIABLES
    sentinel,     \* ArenaHook.sentinel
    nextOrderId,  \* ArenaHook.nextOrderId
    orders,       \* ArenaHook.orders : id -> Order
    poolOrders,   \* ArenaHook.poolOrders : poolId -> sequence of ids
    bal,          \* ERC20 balances: token -> holder -> amount
    settled,      \* history: per order, the settlements that released its escrow,
                  \* each with its kind and the block time it happened at
    now,          \* block.timestamp
    triggers,     \* ArenaSentinel.triggers
    channel,      \* Callback events emitted, each deliverable any number of times
    emitted,      \* history: per trigger index, the number of Callback emissions
    frame         \* the guarded call in progress (ReentrancyGuard is entered),
                  \* its position and the state to roll back to; NoFrame between calls

vars == <<sentinel, nextOrderId, orders, poolOrders, bal, settled, now, triggers,
          channel, emitted, frame>>

\* No call: the op of an idle frame.
NoCall ==
    [op |-> "", caller |-> ZERO, key |-> KeyList[1], side |-> FALSE, amountIn |-> 0,
     minAmountOut |-> 0, duration |-> 0, orderId |-> 0, to |-> ZERO, amount |-> 0]

NoFrame == [call |-> NoCall, orderId |-> NoId, pc |-> 0, saved |-> << >>]

\* The state a call to the hook reads and writes.
Cur ==
    [sentinel |-> sentinel, nextOrderId |-> nextOrderId, orders |-> orders,
     poolOrders |-> poolOrders, bal |-> bal, settled |-> settled]

\* A call that reverts with err: every write is rolled back.
Fail(err) == [err |-> err, ret |-> << >>, st |-> Cur]

\* A call that returns ret and leaves state st.
Ok(ret, st) == [err |-> "", ret |-> ret, st |-> st]

\* One more settlement in the history of an order.
Settle(h, kind) == Append(h, [kind |-> kind, at |-> now])

\* The step of a call to the hook with outcome r.
Apply(r) ==
    /\ sentinel' = r.st.sentinel
    /\ nextOrderId' = r.st.nextOrderId
    /\ orders' = r.st.orders
    /\ poolOrders' = r.st.poolOrders
    /\ bal' = r.st.bal
    /\ settled' = r.st.settled
    /\ UNCHANGED <<now, triggers, channel, emitted, frame>>

(***************************************************************************)
(* ERC20 (OpenZeppelin): balances; ALICE, BOT and AI have approved the hook *)
(* for an unlimited amount, the hook and the pool manager have approved    *)
(* nobody.                                                                 *)
(***************************************************************************)
Approved == {ALICE, BOT, AI}

Move(b, token, from, to, amount) ==
    [b EXCEPT ![token] = [[@ EXCEPT ![from] = @ - amount] EXCEPT ![to] = @ + amount]]

\* IERC20.transferFrom(from, to, amount) with the hook as spender.
CanTransferFrom(b, token, from, amount) ==
    /\ (from \in Approved \/ amount = 0)
    /\ b[token][from] >= amount

\* IERC20.transfer(to, amount) sent by `from`.
CanTransfer(b, token, from, amount) == b[token][from] >= amount

InitialBalance == 2

Init ==
    /\ sentinel = ZERO
    /\ nextOrderId = 0
    /\ orders = [id \in OrderIds |-> NoOrder]
    /\ poolOrders = [p \in PoolIds |-> << >>]
    /\ bal = [t \in Tokens |-> [h \in Holders |->
                 IF h = HOOK THEN 0 ELSE InitialBalance]]
    /\ settled = [id \in OrderIds |-> << >>]
    /\ now = 0
    /\ triggers = << >>
    /\ channel = {}
    /\ emitted = [i \in 1..MaxTriggers |-> 0]
    /\ frame = NoFrame

(***************************************************************************)
(* ArenaHook                                                               *)
(***************************************************************************)
_onlySentinel(caller, s) == caller = s

\* A pool-manager guard that lets every caller through.
_onlyPoolManager_open(caller) == TRUE

_onlyPoolManager(caller) == caller = POOL_MANAGER

setSentinel(caller, _sentinel) ==
    Ok(<< >>, [Cur EXCEPT !.sentinel = _sentinel])

RECURSIVE IndexOf(_, _, _)
\* First position >= i of orderId in ids, 0 when there is none.
IndexOf(ids, orderId, i) ==
    IF i > Len(ids) THEN 0
    ELSE IF ids[i] = orderId THEN i
    ELSE IndexOf(ids, orderId, i + 1)

\* A removal that pops the last entry without first moving it into the place of
\* the removed one.
_removeOrder_popOnly(ids, orderId) ==
    LET i == IndexOf(ids, orderId, 1) IN
    IF i = 0 THEN ids ELSE SubSeq(ids, 1, Len(ids) - 1)

\* A removal that copies the last id over the removed one without popping.
_removeOrder_noPop(ids, orderId) ==
    LET i == IndexOf(ids, orderId, 1) IN
    IF i = 0 THEN ids
    ELSE [ids EXCEPT ![i] = ids[Len(ids)]]

\* Swap-with-last removal of the first occurrence.
_removeOrder(ids, orderId) ==
    LET i == IndexOf(ids, orderId, 1) IN
    IF i = 0 THEN ids
    ELSE SubSeq([ids EXCEPT ![i] = ids[Len(ids)]], 1, Len(ids) - 1)

\* A post that accepts amountIn = 0.
postOrder_anyAmount(caller, key, sellToken0, amountIn, minAmountOut, duration) ==
    LET poolId == _getPoolId(key)
        orderId == nextOrderId
        order == [maker |-> caller, sellToken0 |-> sellToken0, amountIn |-> amountIn,
                  minAmountOut |-> minAmountOut, expiry |-> now + duration,
                  active |-> TRUE, poolId |-> poolId,
                  isHuman |-> caller \notin ContractAccounts]
        tokenIn == IF sellToken0 THEN key.currency0 ELSE key.currency1
    IN
    IF ~CanTransferFrom(bal, tokenIn, caller, amountIn) THEN Fail("TransferFailed")
    ELSE Ok(orderId,
            [Cur EXCEPT !.nextOrderId = nextOrderId + 1,
                        !.orders[orderId] = order,
                        !.bal = Move(bal, tokenIn, caller, HOOK, amountIn),
                        !.poolOrders[poolId] = Append(@, orderId)])

\* A post whose failed transfer is swallowed: the call returns with the order
\* record written and nextOrderId advanced, and nothing escrowed or indexed.
postOrder_noRollback(caller, key, sellToken0, amountIn, minAmountOut, duration) ==
    LET poolId == _getPoolId(key)
        orderId == nextOrderId
        order == [maker |-> caller, sellToken0 |-> sellToken0, amountIn |-> amountIn,
                  minAmountOut |-> minAmountOut, expiry |-> now + duration,
                  active |-> TRUE, poolId |-> poolId,
                  isHuman |-> caller \notin ContractAccounts]
        tokenIn == IF sellToken0 THEN key.currency0 ELSE key.currency1
    IN
    IF amountIn = 0 THEN Fail("InvalidAmounts")
    ELSE IF ~CanTransferFrom(bal, tokenIn, caller, amountIn)
    THEN [err |-> "TransferFailed", ret |-> << >>,
          st |-> [Cur EXCEPT !.nextOrderId = nextOrderId + 1,
                             !.orders[orderId] = order]]
    ELSE Ok(orderId,
            [Cur EXCEPT !.nextOrderId = nextOrderId + 1,
                        !.orders[orderId] = order,
                        !.bal = Move(bal, tokenIn, caller, HOOK, amountIn),
                        !.poolOrders[poolId] = Append(@, orderId)])

\* A post that reads nextOrderId without advancing it.
postOrder_sameId(caller, key, sellToken0, amountIn, minAmountOut, duration) ==
    LET poolId == _getPoolId(key)
        orderId == nextOrderId
        order == [maker |-> caller, sellToken0 |-> sellToken0, amountIn |-> amountIn,
                  minAmountOut |-> minAmountOut, expiry |-> now + duration,
                  active |-> TRUE, poolId |-> poolId,
                  isHuman |-> caller \notin ContractAccounts]
        tokenIn == IF sellToken0 THEN key.currency0 ELSE key.currency1
    IN
    IF amountIn = 0 THEN Fail("InvalidAmounts")
    ELSE IF ~CanTransferFrom(bal, tokenIn, caller, amountIn) THEN Fail("TransferFailed")
    ELSE Ok(orderId,
            [Cur EXCEPT !.orders[orderId] = order,
                        !.bal = Move(bal, tokenIn, caller, HOOK, amountIn),
                        !.poolOrders[poolId] = Append(@, orderId)])

postOrder(caller, key, sellToken0, amountIn, minAmountOut, duration) ==
    LET poolId == _getPoolId(key)
        orderId == nextOrderId
        order == [maker |-> caller, sellToken0 |-> sellToken0, amountIn |-> amountIn,
                  minAmountOut |-> minAmountOut, expiry |-> now + duration,
                  active |-> TRUE, poolId |-> poolId,
                  isHuman |-> caller \notin ContractAccounts]
        tokenIn == IF sellToken0 THEN key.currency0 ELSE key.currency1
    IN
    IF amountIn = 0 THEN Fail("InvalidAmounts")
    ELSE IF ~CanTransferFrom(bal, tokenIn, caller, amountIn) THEN Fail("TransferFailed")
    ELSE Ok(orderId,
            [Cur EXCEPT !.nextOrderId = nextOrderId + 1,
                        !.orders[orderId] = order,
                        !.bal = Move(bal, tokenIn, caller, HOOK, amountIn),
                        !.poolOrders[poolId] = Append(@, orderId)])

\* A cancel that tests the order's state before it tests the caller.
cancelOrder_activeFirst(caller, orderId, key) ==
    LET order == orders[orderId]
        poolId == _getPoolId(key)
        tokenIn == IF order.sellToken0 THEN key.currency0 ELSE key.currency1
    IN
    IF orderId >= nextOrderId THEN Fail("OrderNotFound")
    ELSE IF ~order.active THEN Fail("OrderNotActive")
    ELSE IF caller # order.maker THEN Fail("Unauthorized")
    ELSE IF poolId # order.poolId THEN Fail("PoolMismatch")
    ELSE IF ~CanTransfer(bal, tokenIn, HOOK, order.amountIn) THEN Fail("TransferFailed")
    ELSE Ok(<< >>,
            [Cur EXCEPT !.orders[orderId].active = FALSE,
                        !.poolOrders[poolId] = _removeOrder(@, orderId),
                        !.bal = Move(bal, tokenIn, HOOK, order.maker, order.amountIn),
                        !.settled[orderId] = Settle(@, "cancel")])

\* A cancel that refuses an order past its expiry.
cancelOrder_unexpired(caller, orderId, key) ==
    LET order == orders[orderId]
        poolId == _getPoolId(key)
        tokenIn == IF order.sellToken0 THEN key.currency0 ELSE key.currency1
    IN
    IF orderId >= nextOrderId THEN Fail("OrderNotFound")
    ELSE IF caller # order.maker THEN Fail("Unauthorized")
    ELSE IF ~order.active THEN Fail("OrderNotActive")
    ELSE IF now > order.expiry THEN Fail("OrderExpired")
    ELSE IF poolId # order.poolId THEN Fail("PoolMismatch")
    ELSE IF ~CanTransfer(bal, tokenIn, HOOK, order.amountIn) THEN Fail("TransferFailed")
    ELSE Ok(<< >>,
            [Cur EXCEPT !.orders[orderId].active = FALSE,
                        !.poolOrders[poolId] = _removeOrder(@, orderId),
                        !.bal = Move(bal, tokenIn, HOOK, order.maker, order.amountIn),
                        !.settled[orderId] = Settle(@, "cancel")])

\* A cancel that deletes the order record.
cancelOrder_delete(caller, orderId, key) ==
    LET order == orders[orderId]
        poolId == _getPoolId(key)
        tokenIn == IF order.sellToken0 THEN key.currency0 ELSE key.currency1
    IN
    IF orderId >= nextOrderId THEN Fail("OrderNotFound")
    ELSE IF caller # order.maker THEN Fail("Unauthorized")
    ELSE IF ~order.active THEN Fail("OrderNotActive")
    ELSE IF poolId # order.poolId THEN Fail("PoolMismatch")
    ELSE IF ~CanTransfer(bal, tokenIn, HOOK, order.amountIn) THEN Fail("TransferFailed")
    ELSE Ok(<< >>,
            [Cur EXCEPT !.orders[orderId] = NoOrder,
                        !.poolOrders[poolId] = _removeOrder(@, orderId),
                        !.bal = Move(bal, tokenIn, HOOK, order.maker, order.amountIn),
                        !.settled[orderId] = Settle(@, "cancel")])

cancelOrder(caller, orderId, key) ==
    LET order == orders[orderId]
        poolId == _getPoolId(key)
        tokenIn == IF order.sellToken0 THEN key.currency0 ELSE key.currency1
    IN
    IF orderId >= nextOrderId THEN Fail("OrderNotFound")
    ELSE IF caller # order.maker THEN Fail("Unauthorized")
    ELSE IF ~order.active THEN Fail("OrderNotActive")
    ELSE IF poolId # order.poolId THEN Fail("PoolMismatch")
    ELSE IF ~CanTransfer(bal, tokenIn, HOOK, order.amountIn) THEN Fail("TransferFailed")
    ELSE Ok(<< >>,
            [Cur EXCEPT !.orders[orderId].active = FALSE,
                        !.poolOrders[poolId] = _removeOrder(@, orderId),
                        !.bal = Move(bal, tokenIn, HOOK, order.maker, order.amountIn),
                        !.settled[orderId] = Settle(@, "cancel")])

\* A trigger fill that pays the maker amountIn of the asset it buys.
triggerOrder_paysAmountIn(caller, orderId, key, to) ==
    LET order == orders[orderId]
        poolId == _getPoolId(key)
        tokenIn == IF order.sellToken0 THEN key.currency0 ELSE key.currency1
        tokenOut == IF order.sellToken0 THEN key.currency1 ELSE key.currency0
        b1 == Move(bal, tokenOut, to, order.maker, order.amountIn)
    IN
    IF ~_onlySentinel(caller, sentinel) THEN Fail("NotSentinel")
    ELSE IF ~order.active THEN Fail("OrderNotActive")
    ELSE IF poolId # order.poolId THEN Fail("PoolMismatch")
    ELSE IF ~CanTransferFrom(bal, tokenOut, to, order.amountIn)
    THEN Fail("TransferFailed")
    ELSE IF ~CanTransfer(b1, tokenIn, HOOK, order.amountIn) THEN Fail("TransferFailed")
    ELSE Ok(<< >>,
            [Cur EXCEPT !.bal = Move(b1, tokenIn, HOOK, to, order.amountIn),
                        !.orders[orderId].active = FALSE,
                        !.poolOrders[poolId] = _removeOrder(@, orderId),
                        !.settled[orderId] = Settle(@, "trigger")])

\* A trigger fill that never looks at the order's state.
TriggerFillable_any(order) == TRUE

\* A trigger fill that tests that the order was posted, not that it is active.
TriggerFillable_posted(order) == order.maker # ZERO

\* The test triggerOrder makes on the order before it fills it.
TriggerFillable(order) == order.active

\* A triggerOrder whose failed payment is reported while the order is already closed.
triggerOrder_partial(caller, orderId, key, to) ==
    LET order == orders[orderId]
        poolId == _getPoolId(key)
        tokenIn == IF order.sellToken0 THEN key.currency0 ELSE key.currency1
        tokenOut == IF order.sellToken0 THEN key.currency1 ELSE key.currency0
        \* tokenOut.safeTransferFrom(beneficiary, order.maker, order.minAmountOut)
        b1 == Move(bal, tokenOut, to, order.maker, order.minAmountOut)
    IN
    IF ~_onlySentinel(caller, sentinel) THEN Fail("NotSentinel")
    ELSE IF ~TriggerFillable(order) THEN Fail("OrderNotActive")
    ELSE IF poolId # order.poolId THEN Fail("PoolMismatch")
    ELSE IF ~CanTransferFrom(bal, tokenOut, to, order.minAmountOut)
    THEN [err |-> "TransferFailed", ret |-> << >>,
          st |-> [Cur EXCEPT !.orders[orderId].active = FALSE,
                             !.poolOrders[poolId] = _removeOrder(@, orderId)]]
    ELSE IF ~CanTransfer(b1, tokenIn, HOOK, order.amountIn) THEN Fail("TransferFailed")
    ELSE Ok(<< >>,
            [Cur EXCEPT !.bal = Move(b1, tokenIn, HOOK, to, order.amountIn),
                        !.orders[orderId].active = FALSE,
                        !.poolOrders[poolId] = _removeOrder(@, orderId),
                        !.settled[orderId] = Settle(@, "trigger")])

triggerOrder(caller, orderId, key, to) ==
    LET order == orders[orderId]
        poolId == _getPoolId(key)
        tokenIn == IF order.sellToken0 THEN key.currency0 ELSE key.currency1
        tokenOut == IF order.sellToken0 THEN key.currency1 ELSE key.currency0
        \* tokenOut.safeTransferFrom(beneficiary, order.maker, order.minAmountOut)
        b1 == Move(bal, tokenOut, to, order.maker, order.minAmountOut)
    IN
    IF ~_onlySentinel(caller, sentinel) THEN Fail("NotSentinel")
    ELSE IF ~TriggerFillable(order) THEN Fail("OrderNotActive")
    ELSE IF poolId # order.poolId THEN Fail("PoolMismatch")
    ELSE IF ~CanTransferFrom(bal, tokenOut, to, order.minAmountOut)
    THEN Fail("TransferFailed")
    ELSE IF ~CanTransfer(b1, tokenIn, HOOK, order.amountIn) THEN Fail("TransferFailed")
    ELSE Ok(<< >>,
            [Cur EXCEPT !.bal = Move(b1, tokenIn, HOOK, to, order.amountIn),
                        !.orders[orderId].active = FALSE,
                        !.poolOrders[poolId] = _removeOrder(@, orderId),
                        !.settled[orderId] = Settle(@, "trigger")])

\* uint128(x) for x >= 0: truncation to the low bits.
uint128(x) == x % (UINT128_MAX + 1)

\* int128(uint128(x)): reinterpretation of the bits as a signed value.
int128(x) == IF x > INT128_MAX THEN x - (UINT128_MAX + 1) ELSE x

\* A scan that does not compare the taker's amount with minAmountOut.
Matches_anyPrice(order, zeroForOne, takerAmountIn) ==
    /\ ~(~order.active \/ now > order.expiry)
    /\ ~(order.sellToken0 = zeroForOne)

\* The scan's tests on one index entry (the three `continue`s).
\* A scan that does not compare the block time with the expiry.
Matches_ignoreExpiry(order, zeroForOne, takerAmountIn) ==
    /\ ~(~order.active)
    /\ ~(order.sellToken0 = zeroForOne)
    /\ ~(takerAmountIn < order.minAmountOut)

Matches(order, zeroForOne, takerAmountIn) ==
    /\ ~(~order.active \/ now > order.expiry)
    /\ ~(order.sellToken0 = zeroForOne)
    /\ ~(takerAmountIn < order.minAmountOut)

\* A scan that searches the whole window for the lowest minAmountOut, the lowest
\* position among equals.
Scan_bestPrice(ids, i, maxIter, zeroForOne, takerAmountIn) ==
    LET found == {j \in i..maxIter : Matches(orders[ids[j]], zeroForOne, takerAmountIn)}
        better(j, k) == \/ orders[ids[j]].minAmountOut < orders[ids[k]].minAmountOut
                        \/ /\ orders[ids[j]].minAmountOut = orders[ids[k]].minAmountOut
                           /\ j <= k
    IN
    IF found = {} THEN 0
    ELSE CHOOSE j \in found : \A k \in found : better(j, k)

RECURSIVE Scan(_, _, _, _, _)
\* The for loop: the first position i..maxIter whose order matches, 0 if none.
Scan(ids, i, maxIter, zeroForOne, takerAmountIn) ==
    IF i > maxIter THEN 0
    ELSE IF Matches(orders[ids[i]], zeroForOne, takerAmountIn) THEN i
    ELSE Scan(ids, i + 1, maxIter, zeroForOne, takerAmountIn)

\* A match that charges the taker everything offered.
takerPays_offered(order, takerAmountIn) == takerAmountIn

\* uint128 takerPays = order.minAmountOut
takerPays(order, takerAmountIn) == order.minAmountOut

ZERO_DELTA == <<0, 0>>

\* The return value (BeforeSwapDelta) together with the OrderFilled event's id.
SwapRet(delta, filled) == [delta |-> delta, filled |-> filled]

\* A beforeSwap that scans with the magnitude of an exact-output amount as well.
beforeSwap_exactOutput(caller, key, zeroForOne, amountSpecified) ==
    LET absAmount == IF amountSpecified < 0 THEN -amountSpecified
                     ELSE amountSpecified
        takerAmountIn == uint128(absAmount)
        poolId == _getPoolId(key)
        orderIds == poolOrders[poolId]
        maxIter == IF Len(orderIds) < MAX_ITERATIONS THEN Len(orderIds)
                   ELSE MAX_ITERATIONS
        i == Scan(orderIds, 1, maxIter, zeroForOne, takerAmountIn)
        matchedOrderId == orderIds[i]
        order == orders[matchedOrderId]
        inputCurrency == IF zeroForOne THEN key.currency0 ELSE key.currency1
        outputCurrency == IF zeroForOne THEN key.currency1 ELSE key.currency0
        pays == takerPays(order, takerAmountIn)
        \* POOL_MANAGER.take(inputCurrency, order.maker, takerPays)
        b1 == Move(bal, inputCurrency, POOL_MANAGER, order.maker, pays)
        specified == int128(pays)
    IN
    IF ~_onlyPoolManager(caller) THEN Fail("Unauthorized")
    ELSE IF amountSpecified = INT256_MIN THEN Fail("AmountOverflow")
    ELSE IF i = 0 THEN Ok(SwapRet(ZERO_DELTA, NoId), Cur)
    ELSE IF ~CanTransfer(bal, inputCurrency, POOL_MANAGER, pays)
    THEN Fail("TransferFailed")
    ELSE IF ~CanTransfer(b1, outputCurrency, HOOK, order.amountIn)
    THEN Fail("TransferFailed")
    ELSE IF int128(order.amountIn) = -INT128_MAX - 1 THEN Fail("Panic")
    ELSE Ok(SwapRet(<<specified, -int128(order.amountIn)>>, matchedOrderId),
            [Cur EXCEPT !.orders[matchedOrderId].active = FALSE,
                        !.poolOrders[poolId] = _removeOrder(@, matchedOrderId),
                        !.bal = Move(b1, outputCurrency, HOOK, POOL_MANAGER,
                                     order.amountIn),
                        !.settled[matchedOrderId] = Settle(@, "match")])

\* A beforeSwap without the int256.min check: the negation wraps and the cast truncates.
beforeSwap_noOverflowGuard(caller, key, zeroForOne, amountSpecified) ==
    LET absAmount == -amountSpecified
        takerAmountIn == uint128(absAmount)
        poolId == _getPoolId(key)
        orderIds == poolOrders[poolId]
        maxIter == IF Len(orderIds) < MAX_ITERATIONS THEN Len(orderIds)
                   ELSE MAX_ITERATIONS
        i == Scan(orderIds, 1, maxIter, zeroForOne, takerAmountIn)
        matchedOrderId == orderIds[i]
        order == orders[matchedOrderId]
        inputCurrency == IF zeroForOne THEN key.currency0 ELSE key.currency1
        outputCurrency == IF zeroForOne THEN key.currency1 ELSE key.currency0
        pays == takerPays(order, takerAmountIn)
        \* POOL_MANAGER.take(inputCurrency, order.maker, takerPays)
        b1 == Move(bal, inputCurrency, POOL_MANAGER, order.maker, pays)
        specified == int128(pays)
    IN
    IF ~_onlyPoolManager(caller) THEN Fail("Unauthorized")
    ELSE IF amountSpecified >= 0 THEN Ok(SwapRet(ZERO_DELTA, NoId), Cur)
    ELSE IF i = 0 THEN Ok(SwapRet(ZERO_DELTA, NoId), Cur)
    ELSE IF ~CanTransfer(bal, inputCurrency, POOL_MANAGER, pays)
    THEN Fail("TransferFailed")
    ELSE IF ~CanTransfer(b1, outputCurrency, HOOK, order.amountIn)
    THEN Fail("TransferFailed")
    ELSE IF int128(order.amountIn) = -INT128_MAX - 1 THEN Fail("Panic")
    ELSE Ok(SwapRet(<<specified, -int128(order.amountIn)>>, matchedOrderId),
            [Cur EXCEPT !.orders[matchedOrderId].active = FALSE,
                        !.poolOrders[poolId] = _removeOrder(@, matchedOrderId),
                        !.bal = Move(b1, outputCurrency, HOOK, POOL_MANAGER,
                                     order.amountIn),
                        !.settled[matchedOrderId] = Settle(@, "match")])

\* A beforeSwap that goes on through the window after its match and closes every entry that passes the tests.
beforeSwap_noReturn(caller, key, zeroForOne, amountSpecified) ==
    LET absAmount == -amountSpecified
        takerAmountIn == uint128(absAmount)
        poolId == _getPoolId(key)
        orderIds == poolOrders[poolId]
        maxIter == IF Len(orderIds) < MAX_ITERATIONS THEN Len(orderIds)
                   ELSE MAX_ITERATIONS
        i == Scan(orderIds, 1, maxIter, zeroForOne, takerAmountIn)
        matchedOrderId == orderIds[i]
        order == orders[matchedOrderId]
        inputCurrency == IF zeroForOne THEN key.currency0 ELSE key.currency1
        outputCurrency == IF zeroForOne THEN key.currency1 ELSE key.currency0
        pays == takerPays(order, takerAmountIn)
        \* POOL_MANAGER.take(inputCurrency, order.maker, takerPays)
        b1 == Move(bal, inputCurrency, POOL_MANAGER, order.maker, pays)
        specified == int128(pays)
        passing == {orderIds[j] : j \in {k \in 1..maxIter :
                       Matches(orders[orderIds[k]], zeroForOne, takerAmountIn)}}
    IN
    IF ~_onlyPoolManager(caller) THEN Fail("Unauthorized")
    ELSE IF amountSpecified = INT256_MIN THEN Fail("AmountOverflow")
    ELSE IF amountSpecified >= 0 THEN Ok(SwapRet(ZERO_DELTA, NoId), Cur)
    ELSE IF i = 0 THEN Ok(SwapRet(ZERO_DELTA, NoId), Cur)
    ELSE IF ~CanTransfer(bal, inputCurrency, POOL_MANAGER, pays)
    THEN Fail("TransferFailed")
    ELSE IF ~CanTransfer(b1, outputCurrency, HOOK, order.amountIn)
    THEN Fail("TransferFailed")
    ELSE IF int128(order.amountIn) = -INT128_MAX - 1 THEN Fail("Panic")
    ELSE Ok(SwapRet(<<specified, -int128(order.amountIn)>>, matchedOrderId),
            [Cur EXCEPT !.orders = [id \in DOMAIN orders |->
                                         IF id \in passing
                                         THEN [orders[id] EXCEPT !.active = FALSE]
                                         ELSE orders[id]],
                        !.poolOrders[poolId] =
                            SelectSeq(@, LAMBDA id : id \notin passing),
                        !.bal = Move(b1, outputCurrency, HOOK, POOL_MANAGER,
                                     order.amountIn),
                        !.settled[matchedOrderId] = Settle(@, "match")])

beforeSwap(caller, key, zeroForOne, amountSpecified) ==
    LET absAmount == -amountSpecified
        takerAmountIn == uint128(absAmount)
        poolId == _getPoolId(key)
        orderIds == poolOrders[poolId]
        maxIter == IF Len(orderIds) < MAX_ITERATIONS THEN Len(orderIds)
                   ELSE MAX_ITERATIONS
        i == Scan(orderIds, 1, maxIter, zeroForOne, takerAmountIn)
        matchedOrderId == orderIds[i]
        order == orders[matchedOrderId]
        inputCurrency == IF zeroForOne THEN key.currency0 ELSE key.currency1
        outputCurrency == IF zeroForOne THEN key.currency1 ELSE key.currency0
        pays == takerPays(order, takerAmountIn)
        \* POOL_MANAGER.take(inputCurrency, order.maker, takerPays)
        b1 == Move(bal, inputCurrency, POOL_MANAGER, order.maker, pays)
        specified == int128(pays)
    IN
    IF ~_onlyPoolManager(caller) THEN Fail("Unauthorized")
    ELSE IF amountSpecified = INT256_MIN THEN Fail("AmountOverflow")
    ELSE IF amountSpecified >= 0 THEN Ok(SwapRet(ZERO_DELTA, NoId), Cur)
    ELSE IF i = 0 THEN Ok(SwapRet(ZERO_DELTA, NoId), Cur)
    ELSE IF ~CanTransfer(bal, inputCurrency, POOL_MANAGER, pays)
    THEN Fail("TransferFailed")
    ELSE IF ~CanTransfer(b1, outputCurrency, HOOK, order.amountIn)
    THEN Fail("TransferFailed")
    ELSE IF int128(order.amountIn) = -INT128_MAX - 1 THEN Fail("Panic")
    ELSE Ok(SwapRet(<<specified, -int128(order.amountIn)>>, matchedOrderId),
            [Cur EXCEPT !.orders[matchedOrderId].active = FALSE,
                        !.poolOrders[poolId] = _removeOrder(@, matchedOrderId),
                        !.bal = Move(b1, outputCurrency, HOOK, POOL_MANAGER,
                                     order.amountIn),
                        !.settled[matchedOrderId] = Settle(@, "match")])

(***************************************************************************)
(* ArenaSentinel.  Prices are in units of 1e18 and sqrtPriceX96 in units   *)
(* of 2^96: a sample k stands for sqrtPriceX96 = k * 2^96, whose derived   *)
(* price ((k * 2^96)^2 * 1e18) >> 192 is k * k * 1e18.                     *)
(***************************************************************************)
arenaHook == HOOK
beneficiary == AI
CALLBACK_GAS == 500000
\* The largest k * k for which (k * 2^96)^2 * 1e18 fits uint256:
\* 18e18 < 2^64 <= 19e18.  Beyond it the checked multiplication panics.
MAX_PRICE_WAD == 18
LimitPrices == {4, 9}

addTrigger(orderId, maker, limitPrice, isLower) ==
    Append(triggers,
           [active |-> TRUE, isLower |-> isLower, limitPrice |-> limitPrice,
            orderId |-> orderId, maker |-> maker])

\* A test that also fires at a price equal to the limit.
hit_inclusive(t, currentPrice) ==
    IF t.isLower THEN currentPrice <= t.limitPrice ELSE currentPrice >= t.limitPrice

\* The test of one armed trigger against the price.
hit(t, currentPrice) ==
    IF t.isLower THEN currentPrice < t.limitPrice ELSE currentPrice > t.limitPrice

\* A firing that leaves the trigger armed.
fire_keep(t) == t

\* t.active = false; // One-shot
fire(t) == [t EXCEPT !.active = FALSE]

\* A callback that names the trigger's maker as the beneficiary.
Callback_toMaker(t) ==
    [chain_id |-> L2_CHAIN_ID, target |-> arenaHook, gas |-> CALLBACK_GAS,
     sig |-> "triggerOrder(uint256,address)",
     orderId |-> t.orderId, beneficiary |-> t.maker]

\* abi.encodeWithSignature("triggerOrder(uint256,address)", t.orderId, beneficiary)
\* inside Callback(L2_CHAIN_ID, arenaHook, 500000, payload).
Callback(t) ==
    [chain_id |-> L2_CHAIN_ID, target |-> arenaHook, gas |-> CALLBACK_GAS,
     sig |-> "triggerOrder(uint256,address)",
     orderId |-> t.orderId, beneficiary |-> beneficiary]

RECURSIVE reactLoop(_, _, _, _)
\* The loop over the triggers from index i on: ts are the triggers as written so
\* far, out the Callback events emitted so far, each with the index that emitted it.
reactLoop(ts, i, currentPrice, out) ==
    IF i > Len(ts) THEN [err |-> "", triggers |-> ts, callbacks |-> out]
    ELSE IF ~ts[i].active THEN reactLoop(ts, i + 1, currentPrice, out)
    ELSE IF hit(ts[i], currentPrice)
    THEN reactLoop([ts EXCEPT ![i] = fire(ts[i])], i + 1, currentPrice,
                   Append(out, [index |-> i, event |-> Callback(ts[i])]))
    ELSE reactLoop(ts, i + 1, currentPrice, out)

\* A react that filters on the chain id alone.
react_anyTopic(log) ==
    LET currentPrice == log.sqrtPrice * log.sqrtPrice IN
    IF log.chain_id # L1_CHAIN_ID
    THEN [err |-> "", triggers |-> triggers, callbacks |-> << >>]
    ELSE IF currentPrice > MAX_PRICE_WAD
    THEN [err |-> "Panic", triggers |-> triggers, callbacks |-> << >>]
    ELSE reactLoop(triggers, 1, currentPrice, << >>)

react(log) ==
    LET currentPrice == log.sqrtPrice * log.sqrtPrice IN
    IF log.chain_id # L1_CHAIN_ID \/ log.topic_0 # SWAP_TOPIC_0
    THEN [err |-> "", triggers |-> triggers, callbacks |-> << >>]
    ELSE IF currentPrice > MAX_PRICE_WAD
    THEN [err |-> "Panic", triggers |-> triggers, callbacks |-> << >>]
    ELSE reactLoop(triggers, 1, currentPrice, << >>)

(***************************************************************************)
(* The relay: delivers an emitted Callback to its target, any number of    *)
(* times and in any order, under the RELAY identity.  The hook dispatches  *)
(* on the payload's function signature and has no fallback function.       *)
(***************************************************************************)
TRIGGER_ORDER_SIG == "triggerOrder(uint256,(address,address,uint24,int24,address),address)"

deliver(m) ==
    IF m.sig = TRIGGER_ORDER_SIG
    THEN triggerOrder(RELAY, m.orderId, m.key, m.beneficiary)
    ELSE Fail("NoSuchFunction")

(***************************************************************************)
(* Steps: each entry point called with inputs from small sets.             *)
(***************************************************************************)
\* amountSpecified: the minimum, an exact input above the uint128 range, exact
\* inputs, zero, and an exact output.
SwapAmounts == {INT256_MIN, -(UINT128_MAX + 2), -3, -1, 0, 1}
AmountsIn == 0..MaxAmountIn
MinAmountsOut == {0, MaxMinOut}
Durations == 0..MaxDuration
PostMakers == {ALICE}
SentinelChoices == {RELAY, BOT}
TriggerCallers == {RELAY, BOT}
SwapCallers == {POOL_MANAGER, BOT}

SetSentinelStep ==
    \E caller \in Makers, s \in SentinelChoices : Apply(setSentinel(caller, s))

PostOrderStep(keys, sides, amountsIn, minAmountsOut, durations) ==
    /\ nextOrderId < MaxOrders
    /\ \E caller \in PostMakers, key \in keys, sellToken0 \in sides,
          amountIn \in amountsIn, minAmountOut \in minAmountsOut,
          duration \in durations :
          Apply(postOrder(caller, key, sellToken0, amountIn, minAmountOut, duration))

CancelOrderStep(keys) ==
    \E caller \in Makers, orderId \in OrderIds, key \in keys :
        Apply(cancelOrder(caller, orderId, key))

TriggerOrderStep(callers, keys, tos) ==
    \E caller \in callers, orderId \in OrderIds, key \in keys, to \in tos :
        Apply(triggerOrder(caller, orderId, key, to))

BeforeSwapStep(callers, keys, sides, amounts) ==
    \E caller \in callers, key \in keys, zeroForOne \in sides,
       amountSpecified \in amounts :
        Apply(beforeSwap(caller, key, zeroForOne, amountSpecified))

\* Time passes between blocks.
Tick ==
    /\ now < MaxTime
    /\ now' = now + 1
    /\ UNCHANGED <<sentinel, nextOrderId, orders, poolOrders, bal, settled,
                   triggers, channel, emitted, frame>>

\* The hook alone, with every caller able to bind itself as the sentinel.
NextHook ==
    \/ SetSentinelStep
    \/ PostOrderStep(Keys, BOOLEAN, AmountsIn, MinAmountsOut, Durations)
    \/ CancelOrderStep(Keys)
    \/ TriggerOrderStep(TriggerCallers, Keys, Beneficiaries)
    \/ BeforeSwapStep(SwapCallers, Keys, BOOLEAN, SwapAmounts)
    \/ Tick

SpecHook == Init /\ [][NextHook]_vars

Logs ==
    [chain_id : {L1_CHAIN_ID, OTHER_CHAIN_ID}, topic_0 : {SWAP_TOPIC_0, OTHER_TOPIC},
     sqrtPrice : 0..MaxSqrt]

AddTriggerStep(makers, limitPrices) ==
    /\ Len(triggers) < MaxTriggers
    /\ \E orderId \in 0..(MaxOrders - 1), maker \in makers, limitPrice \in limitPrices,
          isLower \in BOOLEAN :
          triggers' = addTrigger(orderId, maker, limitPrice, isLower)
    /\ UNCHANGED <<sentinel, nextOrderId, orders, poolOrders, bal, settled, now,
                   channel, emitted, frame>>

ReactStep(logs) ==
    \E log \in logs :
        LET r == react(log) IN
        /\ triggers' = r.triggers
        /\ channel' = channel \cup {r.callbacks[j].event : j \in 1..Len(r.callbacks)}
        /\ emitted' = [i \in 1..MaxTriggers |->
              emitted[i] + Cardinality({j \in 1..Len(r.callbacks) :
                                          r.callbacks[j].index = i})]
        /\ UNCHANGED <<sentinel, nextOrderId, orders, poolOrders, bal, settled, now,
                       frame>>

DeliverStep == \E m \in channel : Apply(deliver(m))

\* The sentinel alone.
NextSentinel ==
    \/ AddTriggerStep(Makers, LimitPrices)
    \/ ReactStep(Logs)

SpecSentinel == Init /\ [][NextSentinel]_vars

(***************************************************************************)
(* The whole system: the hook, the sentinel and the relay between them,    *)
(* with one kind of order (ALICE sells 1 of currency0 of the first pool    *)
(* for at least 1 of currency1) so that the interleavings stay enumerable. *)
(* The RELAY identity acts only by delivering emitted callbacks; BOT calls *)
(* the hook directly.                                                      *)
(***************************************************************************)
SysKeys == {KeyList[1]}
SysLogs == [chain_id : {L1_CHAIN_ID}, topic_0 : {SWAP_TOPIC_0}, sqrtPrice : {1, 3}]

Next ==
    \/ SetSentinelStep
    \/ PostOrderStep(SysKeys, {TRUE}, {1}, {1}, {MaxDuration})
    \/ CancelOrderStep(SysKeys)
    \/ TriggerOrderStep({BOT}, SysKeys, {AI})
    \/ BeforeSwapStep({POOL_MANAGER}, SysKeys, {FALSE}, {-1})
    \/ AddTriggerStep({ALICE}, {4})
    \/ ReactStep(SysLogs)
    \/ DeliverStep

Spec == Init /\ [][Next]_vars

(***************************************************************************)
(* A book longer than the scan's cap.  ALICE first posts MAX_ITERATIONS    *)
(* orders into the first pool, each selling 1 of currency0 for at least    *)
(* MaxMinOut of currency1; then up to ScanExtra further orders are posted, *)
(* asking 1 or MaxMinOut, while orders are cancelled and swaps arrive.     *)
(***************************************************************************)
ScanExtra == 2
ScanIds == 0..(MAX_ITERATIONS + ScanExtra)

\* The state after construction, with a maker who holds enough to post
\* MAX_ITERATIONS + ScanExtra orders.
InitScan ==
    /\ sentinel = ZERO
    /\ nextOrderId = 0
    /\ orders = [id \in ScanIds |-> NoOrder]
    /\ poolOrders = [p \in PoolIds |-> << >>]
    /\ bal = [t \in Tokens |-> [h \in Holders |->
                 IF h = HOOK THEN 0
                 ELSE IF h = ALICE THEN MAX_ITERATIONS + ScanExtra
                 ELSE InitialBalance]]
    /\ settled = [id \in ScanIds |-> << >>]
    /\ now = 0
    /\ triggers = << >>
    /\ channel = {}
    /\ emitted = [i \in 1..MaxTriggers |-> 0]
    /\ frame = NoFrame

ScanLoadStep ==
    /\ nextOrderId < MAX_ITERATIONS
    /\ Apply(postOrder(ALICE, KeyList[1], TRUE, 1, MaxMinOut, MaxDuration))

ScanPostStep ==
    /\ nextOrderId >= MAX_ITERATIONS
    /\ nextOrderId < MAX_ITERATIONS + ScanExtra
    /\ \E minAmountOut \in {1, MaxMinOut} :
          Apply(postOrder(ALICE, KeyList[1], TRUE, 1, minAmountOut, MaxDuration))

ScanAmounts == {-1, -MaxMinOut}

NextScan ==
    \/ ScanLoadStep
    \/ ScanPostStep
    \/ nextOrderId >= MAX_ITERATIONS /\ CancelOrderStep(SysKeys)
    \/ nextOrderId >= MAX_ITERATIONS
         /\ BeforeSwapStep({POOL_MANAGER}, SysKeys, BOOLEAN, ScanAmounts)

SpecScan == InitScan /\ [][NextScan]_vars

(***************************************************************************)
(* A sentinel with many triggers: ManyTriggers lower triggers with the     *)
(* first limit price are added one after the other, then up to MaxTriggers *)
(* more of either kind, while price updates arrive.                        *)
(***************************************************************************)
ManyTriggers == 51

ManyLoadStep ==
    /\ Len(triggers) < ManyTriggers
    /\ triggers' = addTrigger(0, ALICE, 4, TRUE)
    /\ UNCHANGED <<sentinel, nextOrderId, orders, poolOrders, bal, settled, now,
                   channel, emitted, frame>>

ManyAddStep ==
    /\ Len(triggers) >= ManyTriggers
    /\ Len(triggers) < ManyTriggers + MaxTriggers
    /\ \E limitPrice \in LimitPrices, isLower \in BOOLEAN :
          triggers' = addTrigger(0, ALICE, limitPrice, isLower)
    /\ UNCHANGED <<sentinel, nextOrderId, orders, poolOrders, bal, settled, now,
                   channel, emitted, frame>>

\* Logs of the subscription whose price is below, at and above the limits.
ManyLogs == [chain_id : {L1_CHAIN_ID}, topic_0 : {SWAP_TOPIC_0}, sqrtPrice : 1..3]

NextManyTriggers ==
    \/ ManyLoadStep
    \/ ManyAddStep
    \/ ReactStep(ManyLogs)

SpecManyTriggers == Init /\ [][NextManyTriggers]_vars

(***************************************************************************)
(* The guarded entry points, effect by effect.  postOrder, cancelOrder,    *)
(* triggerOrder and beforeSwap are nonReentrant; the body of each, after   *)
(* its checks, is a sequence of storage writes and external calls.  While  *)
(* an external call runs the callee may call back into the hook.  A call   *)
(* that fails part-way reverts to the state it started from and releases   *)
(* the guard, as does a call that returns.                                 *)
(***************************************************************************)
Write(what) == [kind |-> "write", what |-> what]
ExternalCall(what) == [kind |-> "call", what |-> what]
Pure(what) == [kind |-> "pure", what |-> what]

\* The entry point a call record names, applied to its arguments.
Call(c) ==
    CASE c.op = "postOrder" ->
            postOrder(c.caller, c.key, c.side, c.amountIn, c.minAmountOut, c.duration)
      [] c.op = "cancelOrder" -> cancelOrder(c.caller, c.orderId, c.key)
      [] c.op = "triggerOrder" -> triggerOrder(c.caller, c.orderId, c.key, c.to)
      [] c.op = "beforeSwap" -> beforeSwap(c.caller, c.key, c.side, c.amount)

\* A guard that never blocks.
nonReentrant_open(f) == FALSE

\* ReentrancyGuard: the status is ENTERED while a guarded call is in progress.
nonReentrant(f) == f.call.op # ""

\* A call as the hook dispatches it: onlySentinel and onlyPoolManager come
\* before nonReentrant in the modifier lists of triggerOrder and beforeSwap.
Guarded(c) ==
    IF c.op = "triggerOrder" /\ ~_onlySentinel(c.caller, sentinel)
    THEN Fail("NotSentinel")
    ELSE IF c.op = "beforeSwap" /\ ~_onlyPoolManager(c.caller)
    THEN Fail("Unauthorized")
    ELSE IF nonReentrant(frame) THEN Fail("ReentrancyGuardReentrantCall")
    ELSE Call(c)

\* The order beforeSwap's scan matches, NoId when it matches none.
Matched(c) ==
    LET takerAmountIn == uint128(-c.amount)
        orderIds == poolOrders[_getPoolId(c.key)]
        maxIter == IF Len(orderIds) < MAX_ITERATIONS THEN Len(orderIds)
                   ELSE MAX_ITERATIONS
        i == Scan(orderIds, 1, maxIter, c.side, takerAmountIn)
    IN
    IF c.amount >= 0 \/ i = 0 THEN NoId ELSE orderIds[i]

\* The body of each entry point after its checks, in source order.
Effects(c, id) ==
    CASE c.op = "postOrder" ->
            << Write("nextOrderId++"),
               Write("orders[orderId] = Order"),
               ExternalCall("safeTransferFrom(msg.sender, this, amountIn)"),
               Write("poolOrders.push") >>
      [] c.op = "cancelOrder" ->
            << Write("active = false"),
               Write("_removeOrder"),
               ExternalCall("safeTransfer(maker, amountIn)") >>
      [] c.op = "triggerOrder" ->
            << ExternalCall("safeTransferFrom(beneficiary, maker, minAmountOut)"),
               ExternalCall("safeTransfer(beneficiary, amountIn)"),
               Write("active = false"),
               Write("_removeOrder") >>
      [] c.op = "beforeSwap" ->
            IF id = NoId THEN << >>
            ELSE << Write("active = false"),
                    Write("_removeOrder"),
                    ExternalCall("take"),
                    ExternalCall("sync"),
                    ExternalCall("safeTransfer(POOL_MANAGER, amountIn)"),
                    ExternalCall("settle"),
                    Pure("int128") >>

Body(f) == Effects(f.call, f.orderId)

Done(st) == [ok |-> TRUE, st |-> st]
Reverted == [ok |-> FALSE, st |-> Cur]

\* One effect of the call in frame f, on the current state.
Do(f, what) ==
    LET c == f.call
        id == f.orderId
        order == orders[id]
        poolId == _getPoolId(c.key)
        \* postOrder: the side posted; the other paths: the order's side
        sells0 == IF c.op = "postOrder" THEN c.side ELSE order.sellToken0
        tokenIn == IF sells0 THEN c.key.currency0 ELSE c.key.currency1
        tokenOut == IF sells0 THEN c.key.currency1 ELSE c.key.currency0
        inputCurrency == IF c.side THEN c.key.currency0 ELSE c.key.currency1
        outputCurrency == IF c.side THEN c.key.currency1 ELSE c.key.currency0
        pays == takerPays(order, uint128(-c.amount))
    IN
    CASE what = "nextOrderId++" -> Done([Cur EXCEPT !.nextOrderId = @ + 1])
      [] what = "orders[orderId] = Order" ->
            Done([Cur EXCEPT !.orders[id] =
                     [maker |-> c.caller, sellToken0 |-> c.side,
                      amountIn |-> c.amountIn, minAmountOut |-> c.minAmountOut,
                      expiry |-> now + c.duration, active |-> TRUE, poolId |-> poolId,
                      isHuman |-> c.caller \notin ContractAccounts]])
      [] what = "safeTransferFrom(msg.sender, this, amountIn)" ->
            IF CanTransferFrom(bal, tokenIn, c.caller, c.amountIn)
            THEN Done([Cur EXCEPT !.bal = Move(bal, tokenIn, c.caller, HOOK, c.amountIn)])
            ELSE Reverted
      [] what = "poolOrders.push" ->
            Done([Cur EXCEPT !.poolOrders[poolId] = Append(@, id)])
      [] what = "active = false" -> Done([Cur EXCEPT !.orders[id].active = FALSE])
      [] what = "_removeOrder" ->
            Done([Cur EXCEPT !.poolOrders[poolId] = _removeOrder(@, id)])
      [] what = "safeTransfer(maker, amountIn)" ->
            IF CanTransfer(bal, tokenIn, HOOK, order.amountIn)
            THEN Done([Cur EXCEPT
                         !.bal = Move(bal, tokenIn, HOOK, order.maker, order.amountIn),
                         !.settled[id] = Settle(@, "cancel")])
            ELSE Reverted
      [] what = "safeTransferFrom(beneficiary, maker, minAmountOut)" ->
            IF CanTransferFrom(bal, tokenOut, c.to, order.minAmountOut)
            THEN Done([Cur EXCEPT
                         !.bal = Move(bal, tokenOut, c.to, order.maker,
                                      order.minAmountOut)])
            ELSE Reverted
      [] what = "safeTransfer(beneficiary, amountIn)" ->
            IF CanTransfer(bal, tokenIn, HOOK, order.amountIn)
            THEN Done([Cur EXCEPT
                         !.bal = Move(bal, tokenIn, HOOK, c.to, order.amountIn),
                         !.settled[id] = Settle(@, "trigger")])
            ELSE Reverted
      [] what = "take" ->
            IF CanTransfer(bal, inputCurrency, POOL_MANAGER, pays)
            THEN Done([Cur EXCEPT
                         !.bal = Move(bal, inputCurrency, POOL_MANAGER, order.maker, pays)])
            ELSE Reverted
      [] what = "sync" -> Done(Cur)
      [] what = "safeTransfer(POOL_MANAGER, amountIn)" ->
            IF CanTransfer(bal, outputCurrency, HOOK, order.amountIn)
            THEN Done([Cur EXCEPT
                         !.bal = Move(bal, outputCurrency, HOOK, POOL_MANAGER,
                                      order.amountIn),
                         !.settled[id] = Settle(@, "match")])
            ELSE Reverted
      [] what = "settle" -> Done(Cur)
      [] what = "int128" ->
            IF int128(order.amountIn) = -INT128_MAX - 1 THEN Reverted ELSE Done(Cur)

\* The state of the hook becomes st.
Becomes(st) ==
    /\ sentinel' = st.sentinel
    /\ nextOrderId' = st.nextOrderId
    /\ orders' = st.orders
    /\ poolOrders' = st.poolOrders
    /\ bal' = st.bal
    /\ settled' = st.settled

\* Calls of the four guarded entry points.
CallInputs ==
    [op : {"postOrder"}, caller : {ALICE}, key : SysKeys, side : {TRUE},
     amountIn : {1, InitialBalance + 1}, minAmountOut : {1}, duration : {MaxDuration},
     orderId : {0}, to : {ZERO}, amount : {0}]
    \cup [op : {"cancelOrder"}, caller : {ALICE}, key : SysKeys, side : {FALSE},
          amountIn : {0}, minAmountOut : {0}, duration : {0},
          orderId : 0..(MaxOrders - 1), to : {ZERO}, amount : {0}]
    \cup [op : {"triggerOrder"}, caller : {BOT}, key : SysKeys, side : {FALSE},
          amountIn : {0}, minAmountOut : {0}, duration : {0},
          orderId : 0..(MaxOrders - 1), to : {AI}, amount : {0}]
    \cup [op : {"beforeSwap"}, caller : {POOL_MANAGER}, key : SysKeys, side : {FALSE},
          amountIn : {0}, minAmountOut : {0}, duration : {0},
          orderId : {0}, to : {ZERO}, amount : {-1}]

\* A top-level call passes the guard and its checks and starts its body.
CallBegin(calls) ==
    /\ ~nonReentrant(frame)
    /\ \E c \in calls :
          /\ c.op = "postOrder" => nextOrderId < MaxOrders
          /\ Guarded(c).err \in {"", "TransferFailed", "Panic"}
          /\ frame' = [call |-> c,
                       orderId |-> IF c.op = "postOrder" THEN nextOrderId
                                   ELSE IF c.op = "beforeSwap" THEN Matched(c)
                                   ELSE c.orderId,
                       pc |-> 1,
                       saved |-> Cur]
    /\ UNCHANGED <<sentinel, nextOrderId, orders, poolOrders, bal, settled, now,
                   triggers, channel, emitted>>

\* The next effect of the call in progress; a failed effect reverts the call.
CallStep ==
    /\ nonReentrant(frame)
    /\ frame.pc <= Len(Body(frame))
    /\ LET x == Do(frame, Body(frame)[frame.pc].what) IN
       IF x.ok
       THEN Becomes(x.st) /\ frame' = [frame EXCEPT !.pc = @ + 1]
       ELSE Becomes(frame.saved) /\ frame' = NoFrame
    /\ UNCHANGED <<now, triggers, channel, emitted>>

\* The call in progress returns.
CallReturn ==
    /\ nonReentrant(frame)
    /\ frame.pc > Len(Body(frame))
    /\ frame' = NoFrame
    /\ UNCHANGED <<sentinel, nextOrderId, orders, poolOrders, bal, settled, now,
                   triggers, channel, emitted>>

\* The callee of the external call in progress calls back into the hook.
Reenter(calls) ==
    /\ nonReentrant(frame)
    /\ frame.pc <= Len(Body(frame))
    /\ Body(frame)[frame.pc].kind = "call"
    /\ \E c \in calls : Apply(Guarded(c))

NextCall ==
    \/ SetSentinelStep
    \/ CallBegin(CallInputs)
    \/ CallStep
    \/ CallReturn
    \/ Reenter(CallInputs)

SpecCall == Init /\ [][NextCall]_vars

(***************************************************************************)
(* A book whose front has expired.  ALICE first posts MAX_ITERATIONS       *)
(* orders of duration 0 into the first pool, each selling 1 of currency0   *)
(* for at least 1 of currency1; then time passes, up to ScanExtra further  *)
(* orders are posted behind them, orders are cancelled and swaps arrive.   *)
(***************************************************************************)
StaleLoadStep ==
    /\ nextOrderId < MAX_ITERATIONS
    /\ Apply(postOrder(ALICE, KeyList[1], TRUE, 1, 1, 0))

NextStale ==
    \/ StaleLoadStep
    \/ ScanPostStep
    \/ nextOrderId >= MAX_ITERATIONS /\ Tick
    \/ nextOrderId >= MAX_ITERATIONS /\ CancelOrderStep(SysKeys)
    \/ nextOrderId >= MAX_ITERATIONS
         /\ BeforeSwapStep({POOL_MANAGER}, SysKeys, BOOLEAN, ScanAmounts)

SpecStale == InitScan /\ [][NextStale]_vars

(***************************************************************************)
(* Properties.                                                             *)
(***************************************************************************)
\* The asset an order sells: currency0 or currency1 of the pool it was posted to.
SellToken(order) ==
    IF order.sellToken0 THEN KeyList[order.poolId].currency0
    ELSE KeyList[order.poolId].currency1

BuyToken(order) ==
    IF order.sellToken0 THEN KeyList[order.poolId].currency1
    ELSE KeyList[order.poolId].currency0

RECURSIVE ActiveSum(_, _)
\* Sum of amountIn over the active orders with id <= n that sell token.
ActiveSum(token, n) ==
    IF n < 0 THEN 0
    ELSE ActiveSum(token, n - 1)
         + (IF orders[n].active /\ SellToken(orders[n]) = token
            THEN orders[n].amountIn ELSE 0)

\* The venue index of a pool id; bytes32(0) has none.
Index(st, p) == IF p \in PoolIds THEN st.poolOrders[p] ELSE << >>

InSeq(x, seq) == \E i \in 1..Len(seq) : seq[i] = x

Kinds(id) == {settled[id][i].kind : i \in 1..Len(settled[id])}

\* C1: for each asset, the balance the hook holds equals the sum of amountIn
\* over the active orders that sell that asset.
C1_EscrowEqualsActiveSum ==
    \A token \in Tokens : bal[token][HOOK] = ActiveSum(token, MaxOrders)

\* C2: an order id is in the venue index of its stored poolId if and only if
\* the order is active, whether or not it has expired.
C2_IndexedIffActive ==
    \A id \in OrderIds : InSeq(id, Index(Cur, orders[id].poolId)) <=> orders[id].active

\* C2 witness: an order removed from the index by a settlement, next to an
\* order that is expired, still active and still indexed.
C2_Witness ==
    \E id1, id2 \in OrderIds :
        /\ settled[id1] # << >>
        /\ ~InSeq(id1, Index(Cur, orders[id1].poolId))
        /\ orders[id2].active
        /\ now > orders[id2].expiry
        /\ InSeq(id2, Index(Cur, orders[id2].poolId))

Fills(id) == {i \in 1..Len(settled[id]) : settled[id][i].kind \in {"match", "trigger"}}

RECURSIVE MakerNet(_, _, _)
\* What the orders with id <= n have moved, net, into maker's balance of token
\* if each was escrowed once, returned at most once and paid for at most once.
MakerNet(maker, token, n) ==
    IF n < 0 THEN 0
    ELSE MakerNet(maker, token, n - 1)
         + (IF orders[n].maker = maker /\ SellToken(orders[n]) = token
            THEN (IF "cancel" \in Kinds(n) THEN 0 ELSE -orders[n].amountIn)
            ELSE 0)
         + (IF orders[n].maker = maker /\ BuyToken(orders[n]) = token /\ Fills(n) # {}
            THEN orders[n].minAmountOut ELSE 0)

\* C3: whatever the relay delivers and however triggers, cancels and matches
\* interleave, each order's escrow is released at most once (by one cancel, one
\* match or one trigger fill), and the maker's balances are those of being paid
\* minAmountOut at most once per order.
C3_ReleasedAndPaidAtMostOnce ==
    /\ \A id \in OrderIds : Len(settled[id]) <= 1
    /\ \A token \in Tokens :
          bal[token][ALICE] = InitialBalance + MakerNet(ALICE, token, MaxOrders)

\* C3 witness: two triggers armed for one order have both fired, their callback
\* is in the channel, the order was trigger-filled, and the other order left the
\* book by a cancel or a match.
C3_Witness ==
    \E id, id2 \in OrderIds :
        /\ Kinds(id) = {"trigger"}
        /\ Cardinality({i \in 1..Len(triggers) :
              triggers[i].orderId = id /\ ~triggers[i].active}) >= 2
        /\ \E m \in channel : m.orderId = id
        /\ Kinds(id2) \in {{"cancel"}, {"match"}}

\* C4: triggerOrder called by the sentinel for an order that is not active
\* reverts with OrderNotActive and leaves the state as it was; no order is
\* trigger-filled twice.
C4_TriggerOnInactiveFails ==
    /\ \A caller \in Callers, id \in OrderIds, key \in Keys, to \in Beneficiaries :
          (caller = sentinel /\ ~orders[id].active) =>
              triggerOrder(caller, id, key, to) = Fail("OrderNotActive")
    /\ \A id \in OrderIds :
          Cardinality({i \in 1..Len(settled[id]) : settled[id][i].kind = "trigger"}) <= 1

\* C4 witness: a sentinel is bound, one order was cancelled by its maker and
\* another was trigger-filled; the id MaxOrders was never posted.
C4_Witness ==
    /\ sentinel \in Callers
    /\ nextOrderId <= MaxOrders
    /\ \E id, id2 \in OrderIds : Kinds(id) = {"cancel"} /\ Kinds(id2) = {"trigger"}

\* C5: a trigger emits at most one Callback; the step that emits it disarms
\* it, and a disarmed trigger is never re-armed and never emits.
C5_OneShot ==
    /\ [](\A i \in 1..MaxTriggers : emitted[i] <= 1)
    /\ [][\A i \in 1..Len(triggers) :
            /\ emitted'[i] > emitted[i] => triggers[i].active /\ ~triggers'[i].active
            /\ ~triggers[i].active => ~triggers'[i].active /\ emitted'[i] = emitted[i]]_vars

\* C5 witness: a lower trigger has fired once and the callback it emitted is in
\* the channel.
C5_Witness ==
    \E i \in 1..Len(triggers) :
        /\ triggers[i].isLower
        /\ ~triggers[i].active
        /\ emitted[i] = 1
        /\ Callback(triggers[i]) \in channel

\* C6: triggerOrder from any caller other than the sentinel reverts with
\* NotSentinel, and beforeSwap from any caller other than the pool manager
\* reverts with Unauthorized, for every argument and every order state; both
\* leave the state as it was.
C6_PrivilegedEntryPointsRejectOthers ==
    /\ \A caller \in Callers, id \in OrderIds, key \in Keys, to \in Beneficiaries :
          caller # sentinel => triggerOrder(caller, id, key, to) = Fail("NotSentinel")
    /\ \A caller \in Callers, key \in Keys, zeroForOne \in BOOLEAN,
          amountSpecified \in SwapAmounts :
          caller # POOL_MANAGER =>
              beforeSwap(caller, key, zeroForOne, amountSpecified) = Fail("Unauthorized")

\* C6 witness: a sentinel is bound and an active, unexpired order that asks for
\* nothing in return rests in the book, so that a fill or a match would succeed
\* if the call were let through.
C6_Witness ==
    /\ sentinel \in Callers
    /\ \E id \in OrderIds :
          orders[id].active /\ now <= orders[id].expiry /\ orders[id].minAmountOut = 0

\* C7: an order is trigger-filled only after the sentinel emitted a callback
\* for it.
C7_TriggerFillOnlyAfterAuthorization ==
    \A id \in OrderIds :
        "trigger" \in Kinds(id) => \E m \in channel : m.orderId = id

\* C8: no order is matched or trigger-filled at a block time past its expiry.
C8_ExpiredNeverFilled ==
    \A id \in OrderIds : \A i \in Fills(id) : settled[id][i].at <= orders[id].expiry

\* The four conditions of a match, on the amount the taker offers.
Compatible(order, zeroForOne, offered) ==
    /\ order.active
    /\ now <= order.expiry
    /\ order.sellToken0 # zeroForOne
    /\ offered >= order.minAmountOut

Min(a, b) == IF a < b THEN a ELSE b

\* C9: an exact-input beforeSwap fills an order only if it is active, not
\* expired, sells the other side and asks no more than the taker offers; when
\* no scanned entry is such an order it returns the zero delta and leaves the
\* state as it was.
C9_MatchOnlyCompatible ==
    \A key \in Keys, zeroForOne \in BOOLEAN, amountSpecified \in SwapAmounts :
        (amountSpecified < 0 /\ amountSpecified # INT256_MIN) =>
            LET r == beforeSwap(POOL_MANAGER, key, zeroForOne, amountSpecified)
                ids == poolOrders[_getPoolId(key)]
                scanned == 1..Min(Len(ids), MAX_ITERATIONS)
            IN
            /\ (r.err = "" /\ r.ret.filled # NoId) =>
                   Compatible(orders[r.ret.filled], zeroForOne, -amountSpecified)
            /\ (\A i \in scanned :
                   ~Compatible(orders[ids[i]], zeroForOne, -amountSpecified)) =>
                   r = Ok(SwapRet(ZERO_DELTA, NoId), Cur)

\* C9 witness: one order was matched, and an active, unexpired order that asks
\* for more than a taker offering 1 brings is still in the book.
C9_Witness ==
    \E id, id2 \in OrderIds :
        /\ Kinds(id) = {"match"}
        /\ orders[id2].active
        /\ now <= orders[id2].expiry
        /\ orders[id2].minAmountOut > 1
        /\ InSeq(id2, Index(Cur, orders[id2].poolId))

\* C10: a match pays the maker exactly minAmountOut of the taker's input asset
\* out of the pool manager, moves exactly amountIn of the asset the order sells
\* from the hook to the pool manager, deactivates the order, removes it from
\* the index and returns the delta (+minAmountOut, -amountIn), whatever the
\* taker offered.
C10_MatchSettlement ==
    \A key \in Keys, zeroForOne \in BOOLEAN, amountSpecified \in SwapAmounts :
        LET r == beforeSwap(POOL_MANAGER, key, zeroForOne, amountSpecified) IN
        (r.err = "" /\ r.ret.filled # NoId) =>
            LET id == r.ret.filled
                o == orders[id]
                input == IF zeroForOne THEN key.currency0 ELSE key.currency1
                output == IF zeroForOne THEN key.currency1 ELSE key.currency0
            IN
            /\ output = SellToken(o)
            /\ r.st.bal[input][o.maker] = bal[input][o.maker] + o.minAmountOut
            /\ r.st.bal[input][POOL_MANAGER] = bal[input][POOL_MANAGER] - o.minAmountOut
            /\ r.st.bal[output][HOOK] = bal[output][HOOK] - o.amountIn
            /\ r.st.bal[output][POOL_MANAGER] = bal[output][POOL_MANAGER] + o.amountIn
            /\ ~r.st.orders[id].active
            /\ ~InSeq(id, Index(r.st, o.poolId))
            /\ r.ret.delta = <<o.minAmountOut, -o.amountIn>>

\* C10 witness: an order asking for MaxMinOut was matched (by the one taker
\* amount of the model that covers it, which offers more) and is inactive and
\* out of the index, the maker holding the payment.
C10_Witness ==
    \E id \in OrderIds :
        /\ Kinds(id) = {"match"}
        /\ orders[id].minAmountOut = MaxMinOut
        /\ ~orders[id].active
        /\ ~InSeq(id, Index(Cur, orders[id].poolId))
        /\ bal[BuyToken(orders[id])][orders[id].maker] >= InitialBalance + MaxMinOut

\* What a trigger fill of order o to beneficiary `to` adds to holder h's
\* balance of token t: the two legs, added up.
TriggerDelta(o, to, t, h) ==
    (IF t = BuyToken(o) /\ h = o.maker THEN o.minAmountOut ELSE 0)
    - (IF t = BuyToken(o) /\ h = to THEN o.minAmountOut ELSE 0)
    + (IF t = SellToken(o) /\ h = to THEN o.amountIn ELSE 0)
    - (IF t = SellToken(o) /\ h = HOOK THEN o.amountIn ELSE 0)

\* The index of pool p in st is that of the current state with id taken out:
\* one entry shorter, without id, and with every other id still in it.
IndexWithout(st, p, id) ==
    /\ Len(st.poolOrders[p]) = Len(poolOrders[p]) - 1
    /\ ~InSeq(id, st.poolOrders[p])
    /\ \A x \in OrderIds \ {id} : InSeq(x, st.poolOrders[p]) <=> InSeq(x, poolOrders[p])

\* C11: a successful triggerOrder moves exactly minAmountOut of the asset the
\* maker buys from the beneficiary to the maker and exactly amountIn of the
\* asset the maker sells from the hook to the beneficiary, deactivates the
\* order and takes its id out of its pool's index; every other balance, order,
\* index and the rest of the hook's state are as before.
C11_TriggerSettlement ==
    \A caller \in Callers, id \in OrderIds, key \in Keys, to \in Beneficiaries :
        LET r == triggerOrder(caller, id, key, to)
            o == orders[id]
        IN
        r.err = "" =>
            /\ o.active
            /\ \A t \in Tokens, h \in Holders :
                  r.st.bal[t][h] = bal[t][h] + TriggerDelta(o, to, t, h)
            /\ r.st.orders = [orders EXCEPT ![id].active = FALSE]
            /\ IndexWithout(r.st, o.poolId, id)
            /\ \A p \in PoolIds \ {o.poolId} : r.st.poolOrders[p] = poolOrders[p]
            /\ r.st.nextOrderId = nextOrderId
            /\ r.st.sentinel = sentinel

\* C11 witness: an order asking for MaxMinOut was trigger-filled to the AI
\* wallet, which holds the escrowed amount and has paid the maker, while
\* another order is still active and indexed.
C11_Witness ==
    \E id, id2 \in OrderIds :
        /\ Kinds(id) = {"trigger"}
        /\ orders[id].minAmountOut = MaxMinOut
        /\ bal[BuyToken(orders[id])][AI] = InitialBalance - MaxMinOut
        /\ bal[SellToken(orders[id])][AI] = InitialBalance + orders[id].amountIn
        /\ orders[id2].active
        /\ InSeq(id2, Index(Cur, orders[id2].poolId))

\* The error cancelOrder reports: the first that applies, in the order
\* OrderNotFound, Unauthorized, OrderNotActive, PoolMismatch; "" when none does.
CancelError(caller, id, key) ==
    IF id >= nextOrderId THEN "OrderNotFound"
    ELSE IF caller # orders[id].maker THEN "Unauthorized"
    ELSE IF ~orders[id].active THEN "OrderNotActive"
    ELSE IF _getPoolId(key) # orders[id].poolId THEN "PoolMismatch"
    ELSE ""

\* C13: cancelOrder fails with OrderNotFound for an id never issued, else
\* Unauthorized for a caller who is not the maker, else OrderNotActive for an
\* inactive order, else PoolMismatch for a key of another pool, and each failure
\* leaves the state as it was.
C13_CancelErrors ==
    \A caller \in Callers, id \in OrderIds, key \in Keys :
        CancelError(caller, id, key) # "" =>
            cancelOrder(caller, id, key) = Fail(CancelError(caller, id, key))

\* C13 witness: an order of ALICE's is inactive (so BOT cancelling it meets two
\* conditions at once and gets Unauthorized), another is active, and an id was
\* never issued.
C13_Witness ==
    /\ nextOrderId <= MaxOrders
    /\ \E id, id2 \in OrderIds, key \in Keys :
          /\ id < nextOrderId /\ ~orders[id].active /\ orders[id].maker = ALICE
          /\ cancelOrder(BOT, id, key).err = "Unauthorized"
          /\ cancelOrder(ALICE, id, key).err = "OrderNotActive"
          /\ orders[id2].active
          /\ \E key2 \in Keys : cancelOrder(ALICE, id2, key2).err = "PoolMismatch"

\* C14: cancelOrder by the maker of an active order, with the key of the
\* order's pool, succeeds whether or not the order has expired: the order
\* becomes inactive, its id leaves the index, exactly amountIn of the asset it
\* sells goes from the hook to the maker and nothing else changes.
C14_MakerCancelSucceeds ==
    \A id \in OrderIds, key \in Keys :
        (orders[id].active /\ _getPoolId(key) = orders[id].poolId) =>
            LET o == orders[id]
                r == cancelOrder(o.maker, id, key)
            IN
            /\ r.err = ""
            /\ r.st.orders = [orders EXCEPT ![id].active = FALSE]
            /\ IndexWithout(r.st, o.poolId, id)
            /\ \A p \in PoolIds \ {o.poolId} : r.st.poolOrders[p] = poolOrders[p]
            /\ r.st.bal = Move(bal, SellToken(o), HOOK, o.maker, o.amountIn)
            /\ r.st.nextOrderId = nextOrderId
            /\ r.st.sentinel = sentinel

\* C14 witness: an order was cancelled at a block time past its expiry and its
\* maker holds the initial balance of the asset it sold again.
C14_Witness ==
    \E id \in OrderIds :
        /\ Len(settled[id]) = 1
        /\ settled[id][1].kind = "cancel"
        /\ settled[id][1].at > orders[id].expiry
        /\ nextOrderId = 1
        /\ bal[SellToken(orders[id])][orders[id].maker] = InitialBalance

\* C15: postOrder with amountIn = 0 reverts with InvalidAmounts for every
\* caller and every other argument, and leaves nextOrderId, the orders, the
\* indexes and the balances as they were.
C15_ZeroAmountRejected ==
    \A caller \in Callers, key \in Keys, sellToken0 \in BOOLEAN,
       minAmountOut \in MinAmountsOut, duration \in Durations :
        postOrder(caller, key, sellToken0, 0, minAmountOut, duration)
            = Fail("InvalidAmounts")

\* C15 witness: orders are in the book, and the caller whose post of amount 0
\* is rejected could post an amount of 1 with the same arguments.
C15_Witness ==
    /\ nextOrderId > 0
    /\ \E key \in Keys :
          /\ postOrder(ALICE, key, TRUE, 0, 0, 0).err = "InvalidAmounts"
          /\ postOrder(ALICE, key, TRUE, 1, 0, 0).err = ""

\* C16: when the transfer of amountIn from the caller to the hook fails (the
\* caller holds less than amountIn, or has given the hook no allowance),
\* postOrder reverts as a whole: no order record, no advance of nextOrderId, no
\* index entry and no balance change.
C16_PostTransferFailureAtomic ==
    \A caller \in Callers, key \in Keys, sellToken0 \in BOOLEAN,
       amountIn \in 1..(InitialBalance + 1), minAmountOut \in MinAmountsOut,
       duration \in Durations :
        LET tokenIn == IF sellToken0 THEN key.currency0 ELSE key.currency1
            r == postOrder(caller, key, sellToken0, amountIn, minAmountOut, duration)
        IN
        ~CanTransferFrom(bal, tokenIn, caller, amountIn) =>
            /\ r.err = "TransferFailed"
            /\ r.st = Cur

\* C16 witness: ALICE has escrowed part of her balance, so that a post of her
\* whole initial balance fails in the transfer while a post of 1 would succeed.
C16_Witness ==
    \E key \in Keys :
        /\ bal[key.currency0][ALICE] < InitialBalance
        /\ bal[key.currency0][ALICE] > 0
        /\ postOrder(ALICE, key, TRUE, InitialBalance, 0, 0).err = "TransferFailed"
        /\ postOrder(ALICE, key, TRUE, 1, 0, 0).err = ""

\* C17: a posted order record changes only by one transition of active from
\* true to false; every other field keeps its posted value, the record is
\* never deleted, and only postOrder writes the record of the next id.
C17_OrderImmutable ==
    [][\A id \in OrderIds :
          id < nextOrderId =>
              \/ orders'[id] = orders[id]
              \/ /\ orders[id].active
                 /\ orders'[id] = [orders[id] EXCEPT !.active = FALSE]]_vars

\* C17 witness: an order posted by ALICE with amountIn = MaxAmountIn and
\* minAmountOut = MaxMinOut has been settled and time has passed its expiry; it
\* is inactive and keeps the posted values.
C17_Witness ==
    \E id \in OrderIds :
        /\ id < nextOrderId
        /\ settled[id] # << >>
        /\ now > orders[id].expiry
        /\ orders[id] = [maker |-> ALICE, sellToken0 |-> orders[id].sellToken0,
                         amountIn |-> MaxAmountIn, minAmountOut |-> MaxMinOut,
                         expiry |-> orders[id].expiry, active |-> FALSE,
                         poolId |-> orders[id].poolId, isHuman |-> TRUE]

\* C12: beforeSwap fills only an order among the first 50 entries of the
\* pool's index, and when none of the first min(length, 50) entries is
\* compatible with the swap it returns the zero delta and changes nothing,
\* whatever lies at position 51 or later.
C12_ScanCapped ==
    \A key \in SysKeys, zeroForOne \in BOOLEAN, amountSpecified \in ScanAmounts :
        LET r == beforeSwap(POOL_MANAGER, key, zeroForOne, amountSpecified)
            ids == poolOrders[_getPoolId(key)]
        IN
        /\ (r.err = "" /\ r.ret.filled # NoId) =>
               IndexOf(ids, r.ret.filled, 1) \in 1..50
        /\ (\A i \in 1..Len(ids) :
               i <= 50 => ~Compatible(orders[ids[i]], zeroForOne, -amountSpecified)) =>
               r = Ok(SwapRet(ZERO_DELTA, NoId), Cur)

\* C12 witness: the index of the first pool holds 51 entries or more, the
\* entry at position 51 is compatible with a taker who offers 1 of currency1,
\* none of the first 50 is, and that taker's swap gets the zero delta and
\* changes nothing.
C12_Witness ==
    LET ids == poolOrders[1] IN
    /\ Len(ids) >= 51
    /\ Compatible(orders[ids[51]], FALSE, 1)
    /\ \A i \in 1..50 : ~Compatible(orders[ids[i]], FALSE, 1)
    /\ beforeSwap(POOL_MANAGER, KeyList[1], FALSE, -1) = Ok(SwapRet(ZERO_DELTA, NoId), Cur)

\* The armed triggers whose condition holds strictly at price.
Due(price) ==
    {i \in 1..Len(triggers) :
        /\ triggers[i].active
        /\ \/ triggers[i].isLower /\ price < triggers[i].limitPrice
           \/ ~triggers[i].isLower /\ price > triggers[i].limitPrice}

\* C20: on a price update of the subscription, the triggers that fire are
\* exactly the armed ones whose condition holds strictly (price < limitPrice
\* for a lower trigger, price > limitPrice for an upper one), however many
\* there are: each emits one callback and is disarmed in that update, and
\* every other trigger is left as it was.
C20_StrictConditionsNoCap ==
    \A log \in Logs :
        LET price == log.sqrtPrice * log.sqrtPrice
            r == react(log)
        IN
        (log.chain_id = L1_CHAIN_ID /\ log.topic_0 = SWAP_TOPIC_0
            /\ price <= MAX_PRICE_WAD) =>
            /\ r.err = ""
            /\ {r.callbacks[j].index : j \in 1..Len(r.callbacks)} = Due(price)
            /\ Len(r.callbacks) = Cardinality(Due(price))
            /\ \A j \in 1..Len(r.callbacks) :
                  r.callbacks[j].event = Callback(triggers[r.callbacks[j].index])
            /\ Len(r.triggers) = Len(triggers)
            /\ \A i \in 1..Len(triggers) :
                  r.triggers[i] = IF i \in Due(price)
                                  THEN [triggers[i] EXCEPT !.active = FALSE]
                                  ELSE triggers[i]

\* C20 witness: more than 50 triggers are stored; one price update fires 51 of
\* them or more at once, and another update, at a price equal to the limit of
\* an armed lower trigger and of an armed upper trigger, fires neither.
C20_Witness ==
    /\ Len(triggers) > 50
    /\ \E log \in Logs : Len(react(log).callbacks) >= 51
    /\ \E log \in Logs, i, k \in 1..Len(triggers) :
          /\ log.chain_id = L1_CHAIN_ID /\ log.topic_0 = SWAP_TOPIC_0
          /\ triggers[i].active /\ triggers[i].isLower
          /\ triggers[k].active /\ ~triggers[k].isLower
          /\ triggers[i].limitPrice = log.sqrtPrice * log.sqrtPrice
          /\ triggers[k].limitPrice = log.sqrtPrice * log.sqrtPrice
          /\ react(log).triggers[i].active
          /\ react(log).triggers[k].active

\* C18: while a guarded call is in progress, a call into postOrder,
\* cancelOrder, triggerOrder or beforeSwap fails and leaves the state as it
\* is; between calls the guard is open and a call is decided by its own checks.
C18_NoReentry ==
    \A c \in CallInputs :
        /\ frame.call.op # "" => Guarded(c).err # "" /\ Guarded(c).st = Cur
        /\ frame.call.op = "" => Guarded(c) = Call(c)

\* C18 witness: a cancel is at its external transfer, the order already
\* inactive and its escrow still in the hook, where a call back into postOrder
\* would succeed if it were let in; an earlier guarded call has returned and
\* left its order in the book.
C18_Witness ==
    /\ frame.call.op = "cancelOrder"
    /\ frame.pc <= Len(Body(frame))
    /\ Body(frame)[frame.pc].kind = "call"
    /\ ~orders[frame.orderId].active
    /\ bal[SellToken(orders[frame.orderId])][HOOK] >= orders[frame.orderId].amountIn
    /\ \E c \in CallInputs : c.op = "postOrder" /\ Call(c).err = ""
    /\ nextOrderId > 0

\* C19: in cancelOrder, the market match and triggerOrder, the write of
\* active = false is the first effect of the body, and the order is inactive
\* whenever an external call of the path runs.
C19_InactiveBeforeExternalCalls ==
    (frame.call.op \in {"cancelOrder", "triggerOrder", "beforeSwap"}
        /\ frame.pc <= Len(Body(frame))) =>
        /\ Body(frame)[1] = Write("active = false")
        /\ Body(frame)[frame.pc].kind = "call" => ~orders[frame.orderId].active

\* C21: every callback a react call emits carries the orderId of the trigger
\* that fired and the sentinel's configured beneficiary, whoever the trigger's
\* maker is, and is addressed to arenaHook on the L2 chain; a react call emits
\* exactly one callback for each trigger it fires and none for any other, and
\* every callback in the channel has these fields.
C21_CallbackFields ==
    /\ \A log \in Logs :
          LET r == react(log) IN
          /\ \A j \in 1..Len(r.callbacks) :
                LET e == r.callbacks[j].event
                    t == triggers[r.callbacks[j].index]
                IN
                /\ e.orderId = t.orderId
                /\ e.beneficiary = beneficiary
                /\ e.target = arenaHook
                /\ e.chain_id = L2_CHAIN_ID
                /\ e.sig = "triggerOrder(uint256,address)"
          /\ \A j, k \in 1..Len(r.callbacks) :
                r.callbacks[j].index = r.callbacks[k].index => j = k
          /\ r.err = "" =>
                {r.callbacks[j].index : j \in 1..Len(r.callbacks)} =
                {i \in 1..Len(triggers) : triggers[i].active /\ ~r.triggers[i].active}
    /\ \A m \in channel :
          /\ m.beneficiary = beneficiary
          /\ m.target = arenaHook
          /\ m.chain_id = L2_CHAIN_ID
          /\ \E i \in 1..Len(triggers) : ~triggers[i].active /\ triggers[i].orderId = m.orderId

\* C21 witness: a trigger whose maker is not the beneficiary has fired once, and
\* the channel holds a callback with its orderId and the configured beneficiary.
C21_Witness ==
    \E i \in 1..Len(triggers) :
        /\ ~triggers[i].active
        /\ emitted[i] = 1
        /\ triggers[i].maker # beneficiary
        /\ triggers[i].orderId = 1
        /\ \E m \in channel : m.orderId = 1 /\ m.beneficiary = AI /\ m.target = HOOK

\* C30: a react call with a log of another chain id or another topic leaves
\* every trigger as it is and emits nothing, whatever sqrtPrice the log carries.
C30_OtherLogsIgnored ==
    \A log \in Logs :
        (log.chain_id # L1_CHAIN_ID \/ log.topic_0 # SWAP_TOPIC_0) =>
            react(log) = [err |-> "", triggers |-> triggers, callbacks |-> << >>]

\* C30 witness: a trigger is armed, a log of the subscription at some price
\* would fire it, and the logs with that price from another chain and with
\* another topic fire nothing.
C30_Witness ==
    \E i \in 1..Len(triggers), log \in Logs :
        /\ triggers[i].active
        /\ log.chain_id = L1_CHAIN_ID /\ log.topic_0 = SWAP_TOPIC_0
        /\ ~react(log).triggers[i].active
        /\ react([log EXCEPT !.chain_id = OTHER_CHAIN_ID]).callbacks = << >>
        /\ react([log EXCEPT !.topic_0 = OTHER_TOPIC]).triggers = triggers

\* C22: a beforeSwap call by the pool manager with amountSpecified >= 0 (an
\* exact-output swap) returns the zero delta and changes nothing, whatever
\* orders rest in the index of the key.
C22_ExactOutputUntouched ==
    \A key \in Keys, zeroForOne \in BOOLEAN, amountSpecified \in SwapAmounts :
        amountSpecified >= 0 =>
            beforeSwap(POOL_MANAGER, key, zeroForOne, amountSpecified)
                = Ok(SwapRet(ZERO_DELTA, NoId), Cur)

\* C22 witness: an exact-input swap would fill a resting order, and the
\* exact-output swap of the same size and direction returns the zero delta.
C22_Witness ==
    \E key \in Keys, zeroForOne \in BOOLEAN :
        LET r == beforeSwap(POOL_MANAGER, key, zeroForOne, 0 - 1) IN
        /\ r.err = ""
        /\ r.ret.filled # NoId
        /\ orders[r.ret.filled].minAmountOut = 0
        /\ beforeSwap(POOL_MANAGER, key, zeroForOne, 1).ret.filled = NoId
        /\ beforeSwap(POOL_MANAGER, key, zeroForOne, 1).st = Cur

\* C23: a beforeSwap call by the pool manager with amountSpecified = int256.min
\* fails with AmountOverflow and changes nothing; the value is not negated into
\* a taker amount that the scan could use.
C23_MinAmountRejected ==
    \A key \in Keys, zeroForOne \in BOOLEAN :
        beforeSwap(POOL_MANAGER, key, zeroForOne, INT256_MIN) = Fail("AmountOverflow")

\* C23 witness: an active unexpired order that a taker amount of 0 (the value
\* int256.min truncates to) would match rests in the index, and the call with
\* int256.min fails with AmountOverflow.
C23_Witness ==
    \E key \in Keys, zeroForOne \in BOOLEAN :
        /\ Len(poolOrders[_getPoolId(key)]) > 0
        /\ Compatible(orders[poolOrders[_getPoolId(key)][1]], zeroForOne,
                      (INT256_MAX + 1) % (UINT128_MAX + 1))
        /\ beforeSwap(POOL_MANAGER, key, zeroForOne, INT256_MIN).err = "AmountOverflow"

\* C24: nextOrderId starts at 0; a successful postOrder returns the current
\* nextOrderId, writes a record at that id, which held none, and advances
\* nextOrderId by exactly 1; a failed postOrder leaves nextOrderId and the
\* records as they are; nextOrderId always equals the number of records ever
\* created, and no step makes it smaller or advances it by more than 1.
C24_PostOutcome ==
    /\ nextOrderId = Cardinality({id \in OrderIds : orders[id] # NoOrder})
    /\ \A id \in OrderIds : orders[id] # NoOrder <=> id < nextOrderId
    /\ \A caller \in Callers, key \in Keys, sellToken0 \in BOOLEAN,
          amountIn \in AmountsIn, minAmountOut \in MinAmountsOut,
          duration \in Durations :
          LET r == postOrder(caller, key, sellToken0, amountIn, minAmountOut, duration)
          IN
          IF r.err = ""
          THEN /\ r.ret = nextOrderId
               /\ orders[r.ret] = NoOrder
               /\ r.st.orders[r.ret].maker = caller
               /\ r.st.nextOrderId = nextOrderId + 1
               /\ \A id \in OrderIds \ {r.ret} : r.st.orders[id] = orders[id]
          ELSE /\ r.st.nextOrderId = nextOrderId
               /\ r.st.orders = orders

C24_IdStep ==
    /\ nextOrderId' \in {nextOrderId, nextOrderId + 1}
    /\ nextOrderId' = nextOrderId + 1 <=>
          (orders[nextOrderId] = NoOrder /\ orders'[nextOrderId] # NoOrder)
    /\ \A id \in OrderIds : orders[id] # NoOrder => orders'[id] # NoOrder

C24_SequentialIds ==
    /\ nextOrderId = 0
    /\ []C24_PostOutcome
    /\ [][C24_IdStep]_vars

\* C24 witness: ids 0 and 1 have been handed out in that order and a post that
\* fails in this state leaves nextOrderId at 2.
C24_Witness ==
    /\ nextOrderId = 2
    /\ orders[0] # NoOrder /\ orders[1] # NoOrder /\ orders[2] = NoOrder
    /\ \E key \in Keys, sellToken0 \in BOOLEAN, amountIn \in AmountsIn :
          /\ postOrder(ALICE, key, sellToken0, amountIn, 0, 0).err = "TransferFailed"
          /\ postOrder(ALICE, key, ~sellToken0, amountIn, 0, 0).ret = 2
          /\ postOrder(ALICE, key, sellToken0, 0, 0, 0).err = "InvalidAmounts"

\* C26: for every negative amountSpecified other than int256.min, the amount
\* beforeSwap compares with minAmountOut is the full -amountSpecified: when one
\* of the scanned orders is compatible with a taker offering -amountSpecified,
\* a call that returns has filled an order, and an order it fills is compatible
\* with that offer.
C26_FullAmountCompared ==
    \A key \in Keys, zeroForOne \in BOOLEAN, amountSpecified \in SwapAmounts :
        (amountSpecified < 0 /\ amountSpecified # INT256_MIN) =>
            LET r == beforeSwap(POOL_MANAGER, key, zeroForOne, amountSpecified)
                ids == poolOrders[_getPoolId(key)]
                offered == 0 - amountSpecified
            IN
            r.err = "" =>
                /\ (\E i \in 1..Min(Len(ids), 50) :
                        Compatible(orders[ids[i]], zeroForOne, offered))
                       => r.ret.filled # NoId
                /\ r.ret.filled # NoId
                       => Compatible(orders[r.ret.filled], zeroForOne, offered)

\* C27: when the sentinel calls triggerOrder on an active order with the key of
\* its pool and the beneficiary lacks the balance or the approval to pay
\* minAmountOut, the call fails with TransferFailed and the whole state is as
\* before: the order active and indexed, the escrow and every balance
\* unchanged.  In that state the maker's cancel succeeds, and so does a trigger
\* fill for a beneficiary that can pay.
C27_TriggerTransferFailureAtomic ==
    \A caller \in Callers, id \in OrderIds, key \in Keys, to \in Beneficiaries :
        LET o == orders[id]
            r == triggerOrder(caller, id, key, to)
            canPay(b) == /\ bal[BuyToken(o)][b] >= o.minAmountOut
                         /\ (b \in {ALICE, BOT, AI} \/ o.minAmountOut = 0)
        IN
        /\ r.err = "TransferFailed" => r.st = Cur
        /\ (/\ caller = sentinel
            /\ o.active
            /\ _getPoolId(key) = o.poolId
            /\ ~canPay(to)) =>
               /\ r.err = "TransferFailed"
               /\ r.st.orders[id].active
               /\ InSeq(id, Index(r.st, o.poolId))
               /\ r.st.bal = bal
               /\ cancelOrder(o.maker, id, key).err = ""
               /\ \A to2 \in Beneficiaries :
                     canPay(to2) => triggerOrder(caller, id, key, to2).err = ""

\* C27 witness: the AI wallet has spent its balance on an earlier trigger fill,
\* a trigger fill of a second active order to it fails for lack of balance and
\* one to the hook fails for lack of approval, and the maker can still cancel.
C27_Witness ==
    \E id, id2 \in OrderIds, key \in Keys :
        /\ Kinds(id2) = {"trigger"}
        /\ orders[id].active
        /\ orders[id].minAmountOut = MaxMinOut
        /\ bal[BuyToken(orders[id])][AI] < MaxMinOut
        /\ triggerOrder(sentinel, id, key, AI).err = "TransferFailed"
        /\ triggerOrder(sentinel, id, key, HOOK).err = "TransferFailed"
        /\ cancelOrder(orders[id].maker, id, key).err = ""

\* C28: every id in a pool's index is the id of an order whose stored poolId is
\* that pool, and an id occupies at most one position over all the indexes; so
\* every order beforeSwap reads from poolOrders[p] has poolId = p.
C28_IndexedOncePerPool ==
    /\ \A p \in PoolIds : \A i \in 1..Len(poolOrders[p]) :
          /\ poolOrders[p][i] \in 0..(nextOrderId - 1)
          /\ orders[poolOrders[p][i]].poolId = p
    /\ \A p, q \in PoolIds : \A i \in 1..Len(poolOrders[p]), j \in 1..Len(poolOrders[q]) :
          poolOrders[p][i] = poolOrders[q][j] => (p = q /\ i = j)

\* C28 witness: an order left its index by a swap-with-last removal made when a
\* later order of the same pool was already behind it, and the later order is
\* still indexed.
C28_Witness ==
    \E id, id2 \in OrderIds :
        /\ id < id2
        /\ orders[id].poolId = orders[id2].poolId
        /\ ~orders[id].active
        /\ orders[id].maker # ZERO
        /\ ~InSeq(id, Index(Cur, orders[id].poolId))
        /\ settled[id][1].at >= orders[id2].expiry
        /\ InSeq(id2, Index(Cur, orders[id2].poolId))

\* C25: a callback the sentinel emitted carries every argument of the hook's
\* triggerOrder: whenever the relay, being the sentinel, delivers a callback
\* in flight for an active order and the beneficiary can pay minAmountOut,
\* the call succeeds and the order is filled.
C25_DeliveredCallbackFills ==
    \A m \in channel :
        LET o == orders[m.orderId]
            r == deliver(m)
        IN
        (/\ sentinel = RELAY
         /\ m.orderId < nextOrderId
         /\ o.active
         /\ m.beneficiary \in {ALICE, BOT, AI}
         /\ bal[BuyToken(o)][m.beneficiary] >= o.minAmountOut) =>
            /\ r.err = ""
            /\ ~r.st.orders[m.orderId].active
            /\ r.st.bal[SellToken(o)][m.beneficiary]
                   = bal[SellToken(o)][m.beneficiary] + o.amountIn

\* C29: beforeSwap leaves every active order whose expiry has passed as it
\* was: active, indexed, unsettled, its escrow with the hook (the hook's
\* balance falls by the amountIn of the order filled and by nothing else).
\* Such an order keeps its place in the scan: when the first 50 entries of the
\* index are active expired orders, no swap fills anything, whatever lies
\* behind them.
C29_ExpiredOrdersStay ==
    \A key \in SysKeys, zeroForOne \in BOOLEAN, amountSpecified \in ScanAmounts :
        LET r == beforeSwap(POOL_MANAGER, key, zeroForOne, amountSpecified)
            ids == poolOrders[_getPoolId(key)]
            stale(id) == orders[id].active /\ now > orders[id].expiry
        IN
        /\ \A id \in DOMAIN orders :
              stale(id) =>
                 /\ r.st.orders[id] = orders[id]
                 /\ InSeq(id, Index(r.st, orders[id].poolId))
                 /\ r.st.settled[id] = settled[id]
        /\ (r.err = "" /\ r.ret.filled # NoId) =>
              /\ ~stale(r.ret.filled)
              /\ \A t \in Tokens :
                    r.st.bal[t][HOOK] =
                        IF t = SellToken(orders[r.ret.filled])
                        THEN bal[t][HOOK] - orders[r.ret.filled].amountIn
                        ELSE bal[t][HOOK]
        /\ (Len(ids) >= 50 /\ \A i \in 1..50 : stale(ids[i])) =>
              r = Ok(SwapRet(ZERO_DELTA, NoId), Cur)

\* C29 witness: the first 50 entries of the first pool's index are active
\* orders past their expiry, the entry at position 51 is an unexpired order
\* compatible with a taker who offers 1 of currency1, the hook still holds the
\* escrow of all of them, and that taker's swap gets the zero delta.
C29_Witness ==
    LET ids == poolOrders[1] IN
    /\ Len(ids) >= 51
    /\ \A i \in 1..50 : orders[ids[i]].active /\ now > orders[ids[i]].expiry
    /\ Compatible(orders[ids[51]], FALSE, 1)
    /\ bal["T0"][HOOK] = Len(ids)
    /\ beforeSwap(POOL_MANAGER, KeyList[1], FALSE, 0 - 1) = Ok(SwapRet(ZERO_DELTA, NoId), Cur)

\* C31: a beforeSwap call that returns fills the order at the lowest position
\* among the first 50 index entries that are compatible with the swap, whatever
\* the other compatible entries ask, and leaves every other compatible order as
\* it was; it fills nothing when no such entry exists.  The positions are those
\* of the index as swap-with-last removals left it.
C31_FirstCompatibleWins ==
    \A key \in SysKeys, zeroForOne \in BOOLEAN, amountSpecified \in ScanAmounts :
        LET r == beforeSwap(POOL_MANAGER, key, zeroForOne, amountSpecified)
            ids == poolOrders[_getPoolId(key)]
            found == {i \in 1..Min(Len(ids), 50) :
                         Compatible(orders[ids[i]], zeroForOne, 0 - amountSpecified)}
            first == CHOOSE i \in found : \A j \in found : i <= j
        IN
        r.err = "" =>
            IF found = {} THEN r.ret.filled = NoId
            ELSE /\ r.ret.filled = ids[first]
                 /\ ~r.st.orders[ids[first]].active
                 /\ \A j \in found \ {first} : r.st.orders[ids[j]] = orders[ids[j]]

\* C31 witness: two entries of the window are compatible with a taker who
\* offers MaxMinOut; the one at the lower position was posted later and asks
\* more than the other, and it is the one the swap fills.
C31_Witness ==
    LET ids == poolOrders[1] IN
    \E i, j \in 1..Min(Len(ids), 50) :
        /\ i < j
        /\ ids[i] > ids[j]
        /\ orders[ids[i]].minAmountOut > orders[ids[j]].minAmountOut
        /\ Compatible(orders[ids[j]], FALSE, MaxMinOut)
        /\ \A k \in 1..i : Compatible(orders[ids[k]], FALSE, MaxMinOut) <=> k = i
        /\ beforeSwap(POOL_MANAGER, KeyList[1], FALSE, 0 - MaxMinOut).err = ""
        /\ beforeSwap(POOL_MANAGER, KeyList[1], FALSE, 0 - MaxMinOut).ret.filled = ids[i]

\* C32: one beforeSwap call makes at most one order go from active to inactive
\* and takes at most one id out of the index of its pool, and that order and
\* that id are the ones it reports as filled; it makes no order active, adds no
\* id and touches no other index, however many entries are compatible with the
\* swap and whatever the taker offers.
C32_AtMostOneFill ==
    \A key \in SysKeys, zeroForOne \in BOOLEAN, amountSpecified \in ScanAmounts :
        LET r == beforeSwap(POOL_MANAGER, key, zeroForOne, amountSpecified)
            p == _getPoolId(key)
            closed == {id \in DOMAIN orders : orders[id].active /\ ~r.st.orders[id].active}
            gone == {id \in DOMAIN orders : InSeq(id, poolOrders[p]) /\ ~InSeq(id, r.st.poolOrders[p])}
        IN
        /\ Cardinality(closed) <= 1
        /\ Cardinality(gone) <= 1
        /\ closed = gone
        /\ Len(r.st.poolOrders[p]) = Len(poolOrders[p]) - Cardinality(gone)
        /\ \A id \in DOMAIN orders : r.st.orders[id].active => orders[id].active
        /\ \A q \in PoolIds \ {p} : r.st.poolOrders[q] = poolOrders[q]
        /\ closed = IF r.err = "" /\ r.ret.filled # NoId THEN {r.ret.filled} ELSE {}

\* C32 witness: two entries of the window or more are compatible with a taker
\* whose offer covers what two of them ask together, and the swap closes one
\* order and shortens the index by one.
C32_Witness ==
    LET ids == poolOrders[1]
        r == beforeSwap(POOL_MANAGER, KeyList[1], FALSE, 0 - MaxMinOut)
    IN
    /\ \E i, j \in 1..Min(Len(ids), 50) :
          /\ i # j
          /\ Compatible(orders[ids[i]], FALSE, MaxMinOut)
          /\ Compatible(orders[ids[j]], FALSE, MaxMinOut)
          /\ orders[ids[i]].minAmountOut + orders[ids[j]].minAmountOut <= MaxMinOut
    /\ r.err = ""
    /\ Len(r.st.poolOrders[1]) = Len(ids) - 1
    /\ Cardinality({id \in DOMAIN orders : orders[id].active /\ ~r.st.orders[id].active}) = 1

====
